---- MODULE Spec2Model ----
(***************************************************************************)
(* State-machine model of CSVLoader.load (base/cvpy/csvloader.py): the     *)
(* row loop that classifies every row of a wide CSV extract, resolves its  *)
(* time, scrape and geounit, and stores narrow facts.  One action starts a *)
(* load, one action is one iteration of the row loop, one ends the stream. *)
(***************************************************************************)
EXTENDS Integers, Sequences, FiniteSets, TLC

(***************************************************************************)
(* Bounds of the model.                                                    *)
(***************************************************************************)
\* rows read from one stream, per specification
MaxCounterRows == 3
MaxClassifyRows == 2
MaxRangeRows == 4
MaxTimeRows == 3
MaxScrapeRows == 2
MaxDatasetRows == 3
MaxGeoRows == 2
\* load() invocations in one behaviour of the multi-load specification
MaxLoads == 2
MaxStoreRows == 3
MaxMismatchRows == 3
MaxReloads == 3
MaxReloadRows == 1
MaxPercentRows == 2
MaxConcurrentLoads == 2
MaxDemographicRows == 3
MaxHospitalRows == 3
MaxSkipRows == 3
MaxModifierRows == 2

(***************************************************************************)
(* Values.  A cell is a string; Python's None is a value of its own.       *)
(***************************************************************************)
None == "<None>"

Truthy(v) == v # None /\ v # ""

\* csvloader.py:15-19
simple_attrs ==
    << "cases", "deaths", "presumptive", "recovered", "tested",
       "hospitalized", "negative", "severe", "monitored",
       "no_longer_monitored", "pending", "active", "inconclusive",
       "quarantined" >>

\* the columns of a complete header, in file order
ColumnOrder ==
    << "access_time", "provider", "country", "state", "county", "region",
       "url", "page", "updated", "age_range", "sex", "other", "other_value",
       "percent", "resolution" >> \o simple_attrs \o << "age_cases", "sex_cases" >>

Range(s) == { s[i] : i \in DOMAIN s }

AllColumns == Range(ColumnOrder)

RECURSIVE Flat(_)
\* concatenation of a sequence of sequences
Flat(ss) == IF ss = << >> THEN << >> ELSE Head(ss) \o Flat(Tail(ss))

(***************************************************************************)
(* Text functions, each tabulated on the cell texts the inputs draw from.  *)
(***************************************************************************)
\* str.strip()
Strip(s) ==
    CASE s = " "      -> ""
      [] s = "  "     -> ""
      [] s = " 10 "   -> "10"
      [] s = " tn "   -> "tn"
      [] s = " 12 "   -> "12"
      [] s = " Knox " -> "Knox"
      [] OTHER        -> s

\* str.lower() on header names
Lower(s) ==
    CASE s = "State"       -> "state"
      [] s = "Access_Time" -> "access_time"
      [] s = "URL"         -> "url"
      [] OTHER             -> s

\* str.upper() on country, state and county
Upper(s) ==
    CASE s = "tn" -> "TN"
      [] s = "va" -> "VA"
      [] s = "us" -> "US"
      [] s = "knox" -> "KNOX"
      [] s = "Knox" -> "KNOX"
      [] OTHER    -> s

\* float(s) succeeds
IsFloat(s) == s \in { "5", "12.5", "10", "12" }

(***************************************************************************)
(* Dates and timestamps.  A date is <<year, month, day>>; a timestamp is a *)
(* date and an hour.                                                       *)
(***************************************************************************)
DaysIn(y, m) ==
    IF m \in {4, 6, 9, 11} THEN 30
    ELSE IF m = 2 THEN (IF y % 4 = 0 /\ (y % 100 # 0 \/ y % 400 = 0) THEN 29 ELSE 28)
    ELSE 31

\* datetime.date(y, m, d) raises ValueError outside the calendar
ValidDate(y, m, d) == y \in 1..9999 /\ m \in 1..12 /\ d \in 1..DaysIn(y, m)

Timestamp(y, m, d, h) == [date |-> <<y, m, d>>, hour |-> h]

\* dateparser.parse(text): <<timestamp>>, or << >> (None) for text it
\* cannot read
DateParserParse(s) ==
    CASE s = "2020-04-01 08:00"  -> << Timestamp(2020, 4, 1, 8) >>
      [] s = "April 1 2020 8am"  -> << Timestamp(2020, 4, 1, 8) >>
      [] s = "2020-04-01 20:00"  -> << Timestamp(2020, 4, 1, 20) >>
      [] s = "2020-04-02 08:00"  -> << Timestamp(2020, 4, 2, 8) >>
      [] s = "2020-03-30"        -> << Timestamp(2020, 3, 30, 0) >>
      [] s = "3/31/2020"         -> << Timestamp(2020, 3, 31, 0) >>
      [] OTHER                   -> << >>

\* datetime.date()
DateOf(ts) == ts.date

\* s.strip().startswith('{')
StartsWithBrace(s) ==
    Strip(s) \in { "{'year':2020,'month':3,'day':29}",
                   "{'year':2020,'month':4}",
                   "{'year':2020,'month':4,'day':31}",
                   "{'year':2020,'month':13,'day':1}",
                   "{year: 2020" }

\* json.loads(s.replace("'", '"')): <<the object's members>>, or << >> when
\* it raises JSONDecodeError
JsonLoads(s) ==
    CASE s = "{'year':2020,'month':3,'day':29}" -> << [year |-> 2020, month |-> 3, day |-> 29] >>
      [] s = "{'year':2020,'month':4}"          -> << [year |-> 2020, month |-> 4] >>
      [] s = "{'year':2020,'month':4,'day':31}" -> << [year |-> 2020, month |-> 4, day |-> 31] >>
      [] s = "{'year':2020,'month':13,'day':1}" -> << [year |-> 2020, month |-> 13, day |-> 1] >>
      [] OTHER                                  -> << >>

(***************************************************************************)
(* Rows.  A row is an ordered dictionary: its keys in insertion order and  *)
(* the value under each key.                                               *)
(***************************************************************************)
Has(row, k) == k \in DOMAIN row.val

Get(row, k) == row.val[k]

\* row[k] = v
SetKey(row, k, v) ==
    [keys |-> IF Has(row, k) THEN row.keys ELSE Append(row.keys, k),
     val  |-> (k :> v) @@ row.val]

\* del row[k]
DelKey(row, k) ==
    [keys |-> SelectSeq(row.keys, LAMBDA x : x # k),
     val  |-> [x \in DOMAIN row.val \ {k} |-> row.val[x]]]

\* the row csv.DictReader yields for a line: the header's columns and the
\* line's cells
RawRow(header, cells) ==
    [keys |-> SelectSeq(ColumnOrder, LAMBDA c : c \in header),
     val  |-> [c \in header |-> cells[c]]]

\* csvloader.py:232-238: keys lower-cased, values stripped, empty -> None
NormalizeRow(raw) ==
    [keys |-> [i \in DOMAIN raw.keys |-> Lower(raw.keys[i])],
     val  |-> [c \in { Lower(k) : k \in DOMAIN raw.val } |->
                 LET k == CHOOSE x \in DOMAIN raw.val : Lower(x) = c
                 IN  IF Strip(raw.val[k]) # "" THEN Strip(raw.val[k]) ELSE None]]

\* lines 243-245 were `state` the only essential column
MissingEssentialStateOnly(row) ==
    IF ~Has(row, "state") THEN "state" ELSE None

\* csvloader.py:243-249: the essential column whose lookup raises KeyError,
\* or None
MissingEssential(row) ==
    IF ~Has(row, "access_time") THEN "access_time"
    ELSE IF ~Has(row, "state") THEN "state"
    ELSE None

\* csvloader.py:256-257
DefaultProvider(row) ==
    IF ~Has(row, "provider") \/ Get(row, "provider") = "state"
    THEN SetKey(row, "provider", "doe-covid19") ELSE row

\* csvloader.py:258-259
DefaultCountry(row) ==
    IF ~Has(row, "country") THEN SetKey(row, "country", "US") ELSE row

\* csvloader.py:260-265: row[new] = row[old]; del row[old]
RenameColumn(row, old, new) ==
    IF Has(row, old) THEN DelKey(SetKey(row, new, Get(row, old)), old) ELSE row

\* csvloader.py:256-265
FillDefaults(row) ==
    RenameColumn(RenameColumn(DefaultCountry(DefaultProvider(row)),
                              "other value", "other_value"),
                 "quarantine", "quarantined")

\* csvloader.py:270-272
OptionalColumns ==
    << "resolution", "no_longer_monitored", "page", "pending", "quarantined",
       "percent", "county", "other_value", "region" >>

\* csvloader.py:270-274
MissingColumns(row) == SelectSeq(OptionalColumns, LAMBDA c : ~Has(row, c))

RECURSIVE FillMissing(_, _)
\* csvloader.py:278-279
FillMissing(row, missing) ==
    IF missing = << >> THEN row
    ELSE FillMissing(SetKey(row, Head(missing), None), Tail(missing))

\* csvloader.py:295
AllEmpty(row) == \A k \in DOMAIN row.val : ~Truthy(row.val[k])

\* [a for a in row.keys() if row[a]]
PopulatedKeys(row) == SelectSeq(row.keys, LAMBDA k : Truthy(row.val[k]))

\* [a for a in simple_attrs if row[a]]
PopulatedSimple(row) == SelectSeq(simple_attrs, LAMBDA a : Truthy(Get(row, a)))

(***************************************************************************)
(* RangeFilter (csvloader.py:281-292).  rows is the list of ranges, each   *)
(* [low, high] or [n]; row numbers and list positions count from 0.        *)
(***************************************************************************)
\* csvloader.py:284-285: "in", "out", or the IndexError of crange[1] on a
\* one-element range (Python evaluates the test left to right)
InRange(crange, n) ==
    IF Len(crange) = 1 /\ n = crange[1] THEN "in"
    ELSE IF n >= crange[1]
         THEN IF Len(crange) < 2 THEN "IndexError"
              ELSE IF n <= crange[2] THEN "in" ELSE "out"
         ELSE "out"

\* csvloader.py:288: the row ends the current range
AtUpperBound(crange, n) == Len(crange) = 1 \/ n = crange[2]

\* lines 284-287 were a row outside the current range to pass
RangeFilterPassesAll(rows, cur, n) ==
    IF rows = << >> THEN [verdict |-> "pass", current_range |-> cur]
    ELSE LET crange == rows[cur + 1]
             where  == InRange(crange, n)
         IN  IF where = "IndexError"
             THEN [verdict |-> "IndexError", current_range |-> cur]
             ELSE IF where = "out"
             THEN [verdict |-> "pass", current_range |-> cur]
             ELSE IF AtUpperBound(crange, n)
             THEN IF cur + 1 >= Len(rows)
                  THEN [verdict |-> "break", current_range |-> cur + 1]
                  ELSE [verdict |-> "pass", current_range |-> cur + 1]
             ELSE [verdict |-> "pass", current_range |-> cur]

\* csvloader.py:282-292: what the loop does with row n, and the cursor after
RangeFilter(rows, cur, n) ==
    IF rows = << >> THEN [verdict |-> "pass", current_range |-> cur]
    ELSE LET crange == rows[cur + 1]
             where  == InRange(crange, n)
         IN  IF where = "IndexError"
             THEN [verdict |-> "IndexError", current_range |-> cur]
             ELSE IF where = "out"
             THEN [verdict |-> "skip", current_range |-> cur]
             ELSE IF AtUpperBound(crange, n)
             THEN IF cur + 1 >= Len(rows)
                  THEN [verdict |-> "break", current_range |-> cur + 1]
                  ELSE [verdict |-> "pass", current_range |-> cur + 1]
             ELSE [verdict |-> "pass", current_range |-> cur]

(***************************************************************************)
(* TimeResolver (csvloader.py:352-387).                                    *)
(***************************************************************************)
\* csvloader.py:364-372: the date of a structured `updated`
StructuredDate(text) ==
    LET loaded == JsonLoads(text)
    IN  IF loaded = << >> THEN [kind |-> "skip", why |-> "updated_json"]
        ELSE LET jd == loaded[1]
             IN  IF \E m \in {"year", "month", "day"} : m \notin DOMAIN jd
                 THEN [kind |-> "raise", exc |-> "KeyError"]
                 ELSE IF ~ValidDate(jd.year, jd.month, jd.day)
                 THEN [kind |-> "raise", exc |-> "ValueError"]
                 ELSE [kind |-> "ok", valid_time |-> <<jd.year, jd.month, jd.day>>]

\* csvloader.py:374-384: the date of a free-form `updated`
TextDate(text) ==
    LET parsed == DateParserParse(text)
    IN  IF parsed = << >> THEN [kind |-> "skip", why |-> "updated_text"]
        ELSE [kind |-> "ok", valid_time |-> DateOf(parsed[1])]

\* ResolveValidTime carrying the previous row's valid time whenever there is
\* one, without looking at `updated`
ResolveValidTimeCarryFirst(row, prev_id_vals, access_ts) ==
    IF ~Has(row, "updated") THEN [kind |-> "raise", exc |-> "KeyError"]
    ELSE LET updated == Get(row, "updated")
         IN  IF prev_id_vals # << >>
             THEN [kind |-> "ok", valid_time |-> prev_id_vals[3]]
             ELSE IF Truthy(updated)
             THEN IF StartsWithBrace(updated)
                  THEN StructuredDate(updated)
                  ELSE TextDate(updated)
             ELSE [kind |-> "ok", valid_time |-> DateOf(access_ts)]

\* csvloader.py:358-387
ResolveValidTime(row, prev_id_vals, access_ts) ==
    IF ~Has(row, "updated") THEN [kind |-> "raise", exc |-> "KeyError"]
    ELSE LET updated == Get(row, "updated")
         IN  IF updated = None /\ prev_id_vals # << >>
             THEN [kind |-> "ok", valid_time |-> prev_id_vals[3]]
             ELSE IF Truthy(updated)
             THEN IF StartsWithBrace(updated)
                  THEN StructuredDate(updated)
                  ELSE TextDate(updated)
             ELSE [kind |-> "ok", valid_time |-> DateOf(access_ts)]

(***************************************************************************)
(* GroupClassifier (csvloader.py:414-443).  A group type is the sequence   *)
(* of the dot-separated parts of its name: 'age.sex' is <<"age", "sex">>,  *)
(* None is << >>.                                                          *)
(***************************************************************************)
GroupNone     == << >>
GroupAge      == << "age" >>
GroupAgeSex   == << "age", "sex" >>
GroupAgeOther == << "age", "other" >>
GroupSex      == << "sex" >>
GroupSexOther == << "sex", "other" >>
GroupHospital == << "other", "hospital" >>

\* group_type and group_type.startswith(prefix)
GroupStartsWith(g, prefix) == g # GroupNone /\ Head(g) = prefix

HospitalSentinel == "HospitalName"

\* Classify with the refinements of an age row tested in the other order
ClassifyOtherFirst(carried, row) ==
    IF carried = << "other", "hospital" >>
    THEN [group_type |-> carried, header |-> Get(row, "other") = "HospitalName"]
    ELSE IF Truthy(Get(row, "age_range"))
    THEN [group_type |-> IF Truthy(Get(row, "other")) THEN << "age", "other" >>
                         ELSE IF Truthy(Get(row, "sex")) THEN << "age", "sex" >>
                         ELSE << "age" >>,
          header |-> FALSE]
    ELSE IF Truthy(Get(row, "sex"))
    THEN [group_type |-> IF Truthy(Get(row, "other")) THEN << "sex", "other" >>
                         ELSE << "sex" >>,
          header |-> FALSE]
    ELSE IF Get(row, "other") = "HospitalName"
    THEN [group_type |-> << "other", "hospital" >>, header |-> TRUE]
    ELSE [group_type |-> << >>, header |-> FALSE]

\* Classify with the sex column compared to one spelling instead of tested
\* for a value
ClassifySexLiteral(carried, row) ==
    IF carried = << "other", "hospital" >>
    THEN [group_type |-> carried, header |-> Get(row, "other") = "HospitalName"]
    ELSE IF Truthy(Get(row, "age_range"))
    THEN [group_type |-> IF Get(row, "sex") = "F" THEN << "age", "sex" >>
                         ELSE IF Truthy(Get(row, "other")) THEN << "age", "other" >>
                         ELSE << "age" >>,
          header |-> FALSE]
    ELSE IF Get(row, "sex") = "F"
    THEN [group_type |-> IF Truthy(Get(row, "other")) THEN << "sex", "other" >>
                         ELSE << "sex" >>,
          header |-> FALSE]
    ELSE IF Get(row, "other") = "HospitalName"
    THEN [group_type |-> << "other", "hospital" >>, header |-> TRUE]
    ELSE [group_type |-> << >>, header |-> FALSE]

\* Classify with a sex-and-other row given a group name no branch handles
ClassifySexOtherRenamed(carried, row) ==
    IF carried = << "other", "hospital" >>
    THEN [group_type |-> carried, header |-> Get(row, "other") = "HospitalName"]
    ELSE IF Truthy(Get(row, "age_range"))
    THEN [group_type |-> IF Truthy(Get(row, "sex")) THEN << "age", "sex" >>
                         ELSE IF Truthy(Get(row, "other")) THEN << "age", "other" >>
                         ELSE << "age" >>,
          header |-> FALSE]
    ELSE IF Truthy(Get(row, "sex"))
    THEN [group_type |-> IF Truthy(Get(row, "other")) THEN << "sex", "others" >>
                         ELSE << "sex" >>,
          header |-> FALSE]
    ELSE IF Get(row, "other") = "HospitalName"
    THEN [group_type |-> << "other", "hospital" >>, header |-> TRUE]
    ELSE [group_type |-> << >>, header |-> FALSE]

\* lines 419-422 were a header inside the hospital group an ordinary row
ClassifyHeaderOnce(carried, row) ==
    IF carried = GroupHospital
    THEN [group_type |-> carried, header |-> FALSE]
    ELSE IF Truthy(Get(row, "age_range"))
    THEN [group_type |-> IF Truthy(Get(row, "sex")) THEN GroupAgeSex
                         ELSE IF Truthy(Get(row, "other")) THEN GroupAgeOther
                         ELSE GroupAge,
          header |-> FALSE]
    ELSE IF Truthy(Get(row, "sex"))
    THEN [group_type |-> IF Truthy(Get(row, "other")) THEN GroupSexOther
                         ELSE GroupSex,
          header |-> FALSE]
    ELSE IF Truthy(Get(row, "other")) /\ Get(row, "other") = HospitalSentinel
    THEN [group_type |-> GroupHospital, header |-> TRUE]
    ELSE [group_type |-> GroupNone, header |-> FALSE]

\* lines 415-422 were a row with an age range to leave the hospital group
ClassifyHospitalLeaves(carried, row) ==
    IF carried = GroupHospital /\ ~Truthy(Get(row, "age_range"))
    THEN [group_type |-> carried,
          header |-> Get(row, "other") = HospitalSentinel]
    ELSE IF Truthy(Get(row, "age_range"))
    THEN [group_type |-> IF Truthy(Get(row, "sex")) THEN GroupAgeSex
                         ELSE IF Truthy(Get(row, "other")) THEN GroupAgeOther
                         ELSE GroupAge,
          header |-> FALSE]
    ELSE IF Truthy(Get(row, "sex"))
    THEN [group_type |-> IF Truthy(Get(row, "other")) THEN GroupSexOther
                         ELSE GroupSex,
          header |-> FALSE]
    ELSE IF Truthy(Get(row, "other")) /\ Get(row, "other") = HospitalSentinel
    THEN [group_type |-> GroupHospital, header |-> TRUE]
    ELSE [group_type |-> GroupNone, header |-> FALSE]

\* csvloader.py:415-443: the group of the row, and whether the row is a
\* facility header (lines 420-422, 438-440: record the name, reset the
\* counter, continue)
Classify(carried, row) ==
    IF carried = GroupHospital
    THEN [group_type |-> carried,
          header |-> Get(row, "other") = HospitalSentinel]
    ELSE IF Truthy(Get(row, "age_range"))
    THEN [group_type |-> IF Truthy(Get(row, "sex")) THEN GroupAgeSex
                         ELSE IF Truthy(Get(row, "other")) THEN GroupAgeOther
                         ELSE GroupAge,
          header |-> FALSE]
    ELSE IF Truthy(Get(row, "sex"))
    THEN [group_type |-> IF Truthy(Get(row, "other")) THEN GroupSexOther
                         ELSE GroupSex,
          header |-> FALSE]
    ELSE IF Truthy(Get(row, "other")) /\ Get(row, "other") = HospitalSentinel
    THEN [group_type |-> GroupHospital, header |-> TRUE]
    ELSE [group_type |-> GroupNone, header |-> FALSE]

(***************************************************************************)
(* GeoUnitResolver (csvloader.py:448-458).  A joined string is the         *)
(* sequence of its pieces, separators included.                            *)
(***************************************************************************)
RECURSIVE Join(_, _)
\* sep.join(parts)
Join(parts, sep) ==
    IF parts = << >> THEN << >>
    ELSE IF Len(parts) = 1 THEN parts
    ELSE << Head(parts), sep >> \o Join(Tail(parts), sep)

\* GeoUnitId with the empty parts kept in the join
GeoUnitIdKeepEmpty(row, group_type, hospital_name) ==
    LET cols == << "country", "state", "county" >>
        base == Join([i \in DOMAIN cols |->
                        IF Truthy(Get(row, cols[i])) THEN Upper(Get(row, cols[i])) ELSE ""],
                     "^")
        reg  == IF Truthy(Get(row, "region"))
                THEN base \o << "$", Get(row, "region") >> ELSE base
    IN  IF group_type = << "other", "hospital" >>
        THEN reg \o << "$", hospital_name >> ELSE reg

\* csvloader.py:449-457
GeoUnitId(row, group_type, hospital_name) ==
    LET cols == SelectSeq(<< "country", "state", "county" >>,
                          LAMBDA c : Truthy(Get(row, c)))
        base == Join([i \in DOMAIN cols |-> Upper(Get(row, cols[i]))], "^")
        reg  == IF Truthy(Get(row, "region"))
                THEN base \o << "$", Get(row, "region") >> ELSE base
    IN  IF group_type = GroupHospital
        THEN reg \o << "$", hospital_name >> ELSE reg

\* csvloader.py:458, 462
GeoUnitResolution(row, group_type) ==
    IF group_type = GroupHospital THEN "hospital" ELSE Get(row, "resolution")

(***************************************************************************)
(* Group-row counter (csvloader.py:468-487).                               *)
(***************************************************************************)
\* csvloader.py:470
SimplVals(id_vals, row) ==
    id_vals \o [i \in DOMAIN simple_attrs |-> Get(row, simple_attrs[i])]

\* csvloader.py:471-474: on file row 0 the carried value is overwritten by
\* the row's own before it is read
PrevAtRow(n, own, carried) == IF n = 0 THEN own ELSE carried

\* lines 483-487 were the counter to count every row
CounterUpdateCount(counter, id_vals, prev_id_vals, group_type) == counter + 1

\* lines 483-487 were the counter never to leave 0
CounterUpdateReset(counter, id_vals, prev_id_vals, group_type) == 0

\* csvloader.py:483-487
CounterUpdate(counter, id_vals, prev_id_vals, group_type) ==
    IF id_vals # prev_id_vals \/ group_type = GroupNone THEN 0 ELSE counter + 1

(***************************************************************************)
(* AttributeNameSynthesizer (csvloader.py:72-107).                         *)
(***************************************************************************)
\* " ".join(v.strip().lower().split()) on the cell texts in use
LowerCollapse(v) ==
    CASE v = "F"                -> "f"
      [] v = "Comorbid  Asthma" -> "comorbid asthma"
      [] v = "ICU"              -> "icu"
      [] v = "HospitalName"     -> "hospitalname"
      [] v = "Mercy"            -> "mercy"
      [] OTHER                  -> v

\* line 99 without .lower()
LowerStripOnly(v) == v

\* v.strip().lower() on the texts of the percent column
LowerStrip(v) ==
    CASE v = "Yes" -> "yes"
      [] v = "YES" -> "yes"
      [] OTHER     -> v

\* a part of a name: '=' + text is a literal, anything else a column name
Lit(text) == [lit |-> TRUE, s |-> text]

Col(name) == [lit |-> FALSE, s |-> name]

\* csvloader.py:88-107: the name, whether the percent warning is logged, and
\* the exception raised instead: KeyError for a column the row lacks,
\* AttributeError for .strip() on None
mk_attr_name(row, arg_parts, check_prc) ==
    LET cols == { arg_parts[i].s : i \in { j \in DOMAIN arg_parts : ~arg_parts[j].lit } }
    IN  IF \E c \in cols : ~Has(row, c) THEN [exc |-> "KeyError"]
        ELSE IF \E c \in cols : Get(row, c) = None THEN [exc |-> "AttributeError"]
        ELSE IF check_prc /\ ~Has(row, "percent") THEN [exc |-> "KeyError"]
        ELSE
        LET parts == [i \in DOMAIN arg_parts |->
                        IF arg_parts[i].lit THEN arg_parts[i].s
                        ELSE LowerCollapse(Get(row, arg_parts[i].s))]
            prc   == check_prc /\ Truthy(Get(row, "percent"))
            yes   == prc /\ LowerStrip(Get(row, "percent")) = "yes"
        IN  [name |-> Join(IF yes THEN Append(parts, "percent") ELSE parts, "_"),
             warn |-> prc /\ ~yes,
             exc  |-> None]

\* a[:4] of a column name that begins with a group prefix, else ""
ColumnPrefix(a) ==
    CASE a = "age_range" -> "age_"
      [] a = "age_cases" -> "age_"
      [] a = "sex_cases" -> "sex_"
      [] OTHER           -> ""

\* a[4:]
ColumnSuffix(a) ==
    CASE a = "age_range" -> "range"
      [] a = "age_cases" -> "cases"
      [] a = "sex_cases" -> "cases"
      [] OTHER           -> a

(***************************************************************************)
(* ConsistencyChecker (csvloader.py:109-125).  Positions 1..3 hold the     *)
(* identity tuple, which is never None; the rest hold cells.               *)
(***************************************************************************)
same_ign_none(l1, l2) ==
    \A i \in DOMAIN l1 :
        IF i <= 3 THEN l1[i] = l2[i]
        ELSE (l1[i] # None /\ l2[i] # None) => l1[i] = l2[i]

(***************************************************************************)
(* Value extraction (csvloader.py:489-791).  A branch yields the calls it  *)
(* makes, in order: create_attribute, store_stav, logger.warning; and the  *)
(* exception that ends it, if any.                                         *)
(***************************************************************************)
Warning(what) == [op |-> "warning", what |-> what]

Raise(exc) == [op |-> "raise", exc |-> exc]

CreateAttribute(dataset, attr) ==
    [op |-> "create_attribute", dataset |-> dataset, attr |-> attr]

StoreStav(attr, val, col) ==
    [op |-> "store_stav", attr |-> attr, val |-> val, csv_col |-> col]

\* mk_attr_name, create_attribute, store_stav as the branches chain them;
\* attr_name_stored tells whether the fact is stored under the synthesized
\* name (attr_name) or under the column name (attr)
NameCreateStore(row, dataset, parts, check_prc, attr_name_stored, col, val) ==
    LET m == mk_attr_name(row, parts, check_prc)
    IN  IF m.exc # None THEN << Raise(m.exc) >>
        ELSE (IF m.warn THEN << Warning("percent") >> ELSE << >>)
             \o << CreateAttribute(dataset, m.name),
                   StoreStav(IF attr_name_stored THEN m.name ELSE << col >>,
                             val, col) >>

\* csvloader.py:493-501
AgeColumns(row, dataset) ==
    LET ks == PopulatedKeys(row)
    IN  Flat([i \in DOMAIN ks |->
            IF ColumnPrefix(ks[i]) = "age_" /\ ks[i] # "age_range"
            THEN NameCreateStore(row, dataset,
                    << Lit("age"), Col("age_range"), Lit(ColumnSuffix(ks[i])) >>,
                    FALSE, TRUE, ks[i], Get(row, ks[i]))
            ELSE << >>])

\* csvloader.py:637-645
SexColumns(row, dataset) ==
    LET ks == PopulatedKeys(row)
    IN  Flat([i \in DOMAIN ks |->
            IF ColumnPrefix(ks[i]) = "sex_"
            THEN NameCreateStore(row, dataset,
                    << Lit("sex"), Col("sex"), Lit(ColumnSuffix(ks[i])) >>,
                    FALSE, TRUE, ks[i], Get(row, ks[i]))
            ELSE << >>])

\* lines 504-519 were a value that does not repeat stored as well
FirstRowSimpleStoresMismatch(row, row_prev, dataset, group_row) ==
    LET as == PopulatedSimple(row)
    IN  Flat([i \in DOMAIN as |->
            IF group_row = 0
            THEN NameCreateStore(row, dataset, << Lit(as[i]) >>, TRUE, FALSE,
                                 as[i], Get(row, as[i]))
            ELSE IF Get(row, as[i]) # Get(row_prev, as[i])
            THEN << Warning("mismatch") >>
                 \o NameCreateStore(row, dataset, << Lit(as[i]) >>, TRUE, FALSE,
                                    as[i], Get(row, as[i]))
            ELSE << >>])

\* csvloader.py:504-519 and 648-661: the simple attributes of the first row
\* of an 'age' or 'sex' group are stored, those of later rows compared
FirstRowSimple(row, row_prev, dataset, group_row) ==
    LET as == PopulatedSimple(row)
    IN  Flat([i \in DOMAIN as |->
            IF group_row = 0
            THEN NameCreateStore(row, dataset, << Lit(as[i]) >>, TRUE, FALSE,
                                 as[i], Get(row, as[i]))
            ELSE IF Get(row, as[i]) # Get(row_prev, as[i])
            THEN << Warning("mismatch") >>
            ELSE << >>])

\* csvloader.py:503-519
ExtractAge(row, row_prev, dataset, group_row) ==
    FirstRowSimple(row, row_prev, dataset, group_row)

\* csvloader.py:521-559
ExtractAgeSex(row, row_prev, dataset, group_row) ==
    LET ks == PopulatedKeys(row)
    IN  Flat([i \in DOMAIN ks |->
            IF ColumnPrefix(ks[i]) = "sex_"
            THEN NameCreateStore(row, dataset,
                    << Lit("age"), Col("age_range"), Col("sex"),
                       Lit(ColumnSuffix(ks[i])) >>,
                    FALSE, TRUE, ks[i], Get(row, ks[i]))
            ELSE IF ks[i] \in Range(simple_attrs)
            THEN IF group_row = 0
                 THEN NameCreateStore(row, dataset,
                         << Lit("age"), Col("age_range"), Lit(ks[i]) >>,
                         TRUE, FALSE, ks[i], Get(row, ks[i]))
                 ELSE IF Get(row, ks[i]) # Get(row_prev, ks[i])
                 THEN << Warning("mismatch") >>
                 ELSE << >>
            ELSE << >>])

\* for attr in simple_attrs if row[attr]: name from prefix parts + '=' + attr
SimpleWithPrefix(row, dataset, prefix) ==
    LET as == PopulatedSimple(row)
    IN  Flat([i \in DOMAIN as |->
            NameCreateStore(row, dataset, prefix \o << Lit(as[i]) >>, TRUE, TRUE,
                            as[i], Get(row, as[i]))])

\* csvloader.py:563-628 and 665-725: a group with an `other` column;
\* group_parts are the name parts of the group ('=age', 'age_range' or
\* '=sex', 'sex'); non_numeric is the branch taken when float() fails
OtherGroup(row, dataset, group_row, simpl_vals, simpl_vals_prev,
           group_parts, non_numeric) ==
    IF ~Has(row, "other_value") THEN << Raise("KeyError") >>
    ELSE IF Truthy(Get(row, "other_value"))
    THEN IF IsFloat(Get(row, "other_value"))
         THEN IF group_row = 0
              THEN SimpleWithPrefix(row, dataset, << >>)
                   \o NameCreateStore(row, dataset,
                          group_parts \o << Col("other") >>, FALSE, TRUE,
                          "other_value", Get(row, "other_value"))
              ELSE IF ~same_ign_none(simpl_vals, simpl_vals_prev)
              THEN << Warning("mismatch") >>
              ELSE << >>
         ELSE non_numeric
    ELSE SimpleWithPrefix(row, dataset, group_parts \o << Col("other") >>)

\* csvloader.py:561-628
ExtractAgeOther(row, dataset, group_row, simpl_vals, simpl_vals_prev) ==
    OtherGroup(row, dataset, group_row, simpl_vals, simpl_vals_prev,
               << Lit("age"), Col("age_range") >>,
               \* csvloader.py:601-615
               SimpleWithPrefix(row, dataset,
                   << Lit("age"), Col("age_range"), Col("other"),
                      Col("other_value") >>))

\* csvloader.py:663-725
ExtractSexOther(row, dataset, group_row, simpl_vals, simpl_vals_prev) ==
    OtherGroup(row, dataset, group_row, simpl_vals, simpl_vals_prev,
               << Lit("sex"), Col("sex") >>,
               \* csvloader.py:702-713: one fact, of the column the loop of
               \* line 637 ended on
               LET ks   == PopulatedKeys(row)
                   attr == ks[Len(ks)]
               IN  NameCreateStore(row, dataset,
                       << Lit("sex"), Col("sex"), Col("other"),
                          Col("other_value") >>,
                       TRUE, TRUE, attr, Get(row, attr)))

\* csvloader.py:730-746
ExtractHospital(row, dataset, group_row, simpl_vals, simpl_vals_prev) ==
    (IF ~Has(row, "other_value") THEN << Raise("KeyError") >>
     ELSE IF Truthy(Get(row, "other_value"))
     THEN NameCreateStore(row, dataset, << Col("other") >>, FALSE, TRUE,
                          "other_value", Get(row, "other_value"))
     ELSE << >>)
    \o (IF group_row > 0 /\ ~same_ign_none(simpl_vals, simpl_vals_prev)
        THEN << Warning("mismatch") >> ELSE << >>)

\* csvloader.py:748-791
ExtractNone(row, dataset) ==
    IF Truthy(Get(row, "other")) /\ ~Has(row, "other_value") THEN << Raise("KeyError") >>
    ELSE IF Truthy(Get(row, "other")) /\ Truthy(Get(row, "other_value"))
    THEN IF IsFloat(Get(row, "other_value"))
         THEN NameCreateStore(row, dataset, << Col("other") >>, TRUE, TRUE,
                              "other", Get(row, "other_value"))
         ELSE SimpleWithPrefix(row, dataset, << Col("other"), Col("other_value") >>)
    ELSE IF Truthy(Get(row, "other"))
    THEN << Warning("other_without_value") >>
    ELSE SimpleWithPrefix(row, dataset, << >>)

\* csvloader.py:630-632, 726-728
UnknownGroupBug == << Raise("ValueError: BUG: Unknown age subgroup") >>

\* csvloader.py:489-791: the branch chosen for the group
Extract(row, row_prev, dataset, group_type, group_row, simpl_vals, simpl_vals_prev) ==
    IF GroupStartsWith(group_type, "age")
    THEN AgeColumns(row, dataset)
         \o (IF group_type = GroupAge
             THEN ExtractAge(row, row_prev, dataset, group_row)
             ELSE IF group_type = GroupAgeSex
             THEN ExtractAgeSex(row, row_prev, dataset, group_row)
             ELSE IF group_type = GroupAgeOther
             THEN ExtractAgeOther(row, dataset, group_row, simpl_vals, simpl_vals_prev)
             ELSE UnknownGroupBug)
    ELSE IF GroupStartsWith(group_type, "sex")
    THEN SexColumns(row, dataset)
         \o (IF group_type = GroupSex
             THEN FirstRowSimple(row, row_prev, dataset, group_row)
             ELSE IF group_type = GroupSexOther
             THEN ExtractSexOther(row, dataset, group_row, simpl_vals, simpl_vals_prev)
             ELSE UnknownGroupBug)
    ELSE IF group_type = GroupHospital
    THEN ExtractHospital(row, dataset, group_row, simpl_vals, simpl_vals_prev)
    ELSE IF group_type = GroupNone
    THEN ExtractNone(row, dataset)
    ELSE << >>

\* the calls made before the first exception, and that exception (or None)
Raised(ops) == { i \in DOMAIN ops : ops[i].op = "raise" }

Executed(ops) ==
    IF Raised(ops) = {} THEN ops
    ELSE SubSeq(ops, 1, (CHOOSE i \in Raised(ops) : \A j \in Raised(ops) : i <= j) - 1)

RaisedBy(ops) ==
    IF Raised(ops) = {} THEN None
    ELSE ops[CHOOSE i \in Raised(ops) : \A j \in Raised(ops) : i <= j].exc

(***************************************************************************)
(* The stores (csvloader.py:58-70, 150-170, 302-338, 394-412, 459-466).    *)
(* An insert of a key that exists raises IntegrityError, which the loader  *)
(* answers with a rollback; a statement that succeeds is followed by a     *)
(* commit.  undo holds the stores as of the last commit while statements   *)
(* are uncommitted; lost tells whether a rollback undid such a statement.  *)
(***************************************************************************)
NoDataset == << >>

EmptyDb ==
    [providers  |-> {},
     vendors    |-> {},
     datasets   |-> {},
     geounits   |-> {},
     attributes |-> {},
     scrapes    |-> {},
     stav       |-> << >>,
     scrape_seq |-> 0,
     undo       |-> << >>,
     lost       |-> FALSE]

\* the tables of the connection
Stores(d) ==
    [providers |-> d.providers, vendors |-> d.vendors, datasets |-> d.datasets,
     geounits |-> d.geounits, attributes |-> d.attributes, scrapes |-> d.scrapes,
     stav |-> d.stav]

\* cur.execute of a statement that succeeds: d is the connection before it,
\* changed the tables after it
Execute(d, changed) ==
    [changed EXCEPT !.undo = IF d.undo = << >> THEN << Stores(d) >> ELSE d.undo]

\* con.commit()
Commit(d) == [d EXCEPT !.undo = << >>]

\* con.rollback(): every statement since the last commit is undone
Rollback(d) ==
    IF d.undo = << >> THEN d
    ELSE [d EXCEPT !.providers = d.undo[1].providers,
                   !.vendors = d.undo[1].vendors,
                   !.datasets = d.undo[1].datasets,
                   !.geounits = d.undo[1].geounits,
                   !.attributes = d.undo[1].attributes,
                   !.scrapes = d.undo[1].scrapes,
                   !.stav = d.undo[1].stav,
                   !.undo = << >>,
                   !.lost = TRUE]

\* csvloader.py:302-309
InsertProvider(d, provider_id) ==
    IF provider_id = None \/ provider_id \in d.providers THEN Rollback(d)
    ELSE Commit(Execute(d, [d EXCEPT !.providers = @ \cup {provider_id}]))

\* csvloader.py:317-326
InsertVendor(d, vendor_id) ==
    IF vendor_id \in d.vendors THEN Rollback(d)
    ELSE Commit(Execute(d, [d EXCEPT !.vendors = @ \cup {vendor_id}]))

\* csvloader.py:328-338
InsertDataset(d, vendor_id, dataset_id) ==
    IF \E x \in d.datasets : x.dataset_id = dataset_id THEN Rollback(d)
    ELSE Commit(Execute(d, [d EXCEPT !.datasets = @ \cup
                                {[vendor_id |-> vendor_id, dataset_id |-> dataset_id]}]))

\* lines 459-462 without the commit of line 466
InsertGeounitUncommitted(d, geounit_id, resolution) ==
    IF \E g \in d.geounits : g.geounit_id = geounit_id THEN Rollback(d)
    ELSE Execute(d, [d EXCEPT !.geounits = @ \cup
                        {[geounit_id |-> geounit_id, resolution |-> resolution]}])

\* csvloader.py:459-466
InsertGeounit(d, geounit_id, resolution) ==
    IF \E g \in d.geounits : g.geounit_id = geounit_id THEN Rollback(d)
    ELSE Commit(Execute(d, [d EXCEPT !.geounits = @ \cup
                                {[geounit_id |-> geounit_id, resolution |-> resolution]}]))

\* 'percent' in attr, attr being the joined name
ContainsPercent(attr) ==
    \E i \in DOMAIN attr : attr[i] \in { "percent", "percent positive" }

\* lines 40-70 were the attribute key the attribute name alone
create_attributeByName(d, dataset_id, attr) ==
    IF \E a \in d.attributes : a.attr = attr
    THEN Rollback(d)
    ELSE Commit(Execute(d, [d EXCEPT !.attributes = @ \cup
            {[dataset_id |-> dataset_id, attr |-> attr,
              meta |-> IF ContainsPercent(attr) THEN "%" ELSE None]}]))

\* csvloader.py:40-70, called with ignore_duplicate=True
create_attribute(d, dataset_id, attr) ==
    IF \E a \in d.attributes : a.dataset_id = dataset_id /\ a.attr = attr
    THEN Rollback(d)
    ELSE Commit(Execute(d, [d EXCEPT !.attributes = @ \cup
            {[dataset_id |-> dataset_id, attr |-> attr,
              meta |-> IF ContainsPercent(attr) THEN "%" ELSE None]}]))

\* lines 135-167 without the commit of line 170
store_stavUncommitted(d, scrape_id, geounit_id, vtime, attr, val, csv_row, csv_col, conflict) ==
    IF conflict THEN Rollback(d)
    ELSE Execute(d, [d EXCEPT !.stav = Append(@,
            [scrape_id |-> scrape_id, geounit_id |-> geounit_id, vtime |-> vtime,
             attr |-> attr, val |-> val, csv_row |-> csv_row, csv_col |-> csv_col])])

\* csvloader.py:135-170; conflict tells whether the INSERT raises
\* IntegrityError (lines 161-167: a warning, a rollback, a normal return)
store_stav(d, scrape_id, geounit_id, vtime, attr, val, csv_row, csv_col, conflict) ==
    IF conflict THEN Rollback(d)
    ELSE Commit(Execute(d, [d EXCEPT !.stav = Append(@,
            [scrape_id |-> scrape_id, geounit_id |-> geounit_id, vtime |-> vtime,
             attr |-> attr, val |-> val, csv_row |-> csv_row, csv_col |-> csv_col])]))

\* SelectScrapes with the fetch timestamp left out of the WHERE clause
SelectScrapesAnyTime(d, provider_id, uri, scraped_ts) ==
    { x \in d.scrapes : /\ x.provider_id = provider_id
                        /\ x.uri = uri }

\* csvloader.py:394-400: the scrapes the SELECT returns
SelectScrapes(d, provider_id, uri, scraped_ts) ==
    { x \in d.scrapes : /\ x.provider_id = provider_id
                        /\ x.uri = uri
                        /\ x.scraped_ts = scraped_ts }

\* csvloader.py:401: the SELECT found no scrape
ScrapeNotFound(d, provider_id, uri, scraped_ts) ==
    SelectScrapes(d, provider_id, uri, scraped_ts) = {}

\* csvloader.py:394-412: the store after the lookup (and the insert, when
\* nothing is found), and the scrape_id fetched
ResolveScrape(d, provider_id, uri, dataset_id, scraped_ts, doc, csv_file, csv_row) ==
    IF ScrapeNotFound(d, provider_id, uri, scraped_ts)
    THEN [db |-> Commit(Execute(d,
                    [d EXCEPT !.scrape_seq = @ + 1,
                              !.scrapes = @ \cup
                                 {[scrape_id |-> d.scrape_seq + 1,
                                   provider_id |-> provider_id, uri |-> uri,
                                   dataset_id |-> dataset_id,
                                   scraped_ts |-> scraped_ts, doc |-> doc,
                                   csv_file |-> csv_file, csv_row |-> csv_row]}])),
          scrape_id |-> d.scrape_seq + 1]
    ELSE [db |-> d,
          scrape_id |->
              LET found == SelectScrapes(d, provider_id, uri, scraped_ts)
              IN  (CHOOSE x \in found : \A y \in found : x.scrape_id <= y.scrape_id).scrape_id]

\* the stores d1 that a call left of d, the fact it stored, if any, marked
\* with the file whose load stored it (a history mark, not a column)
Stamp(d, d1, file) ==
    IF Len(d1.stav) > Len(d.stav)
    THEN [d1 EXCEPT !.stav[Len(d1.stav)] = [by |-> file] @@ @]
    ELSE d1

RECURSIVE ApplyCallsUntilRefused(_, _, _, _, _)
\* lines 489-791 were a refused fact INSERT to end the row's calls
ApplyCallsUntilRefused(d, calls, at, conflicts, k) ==
    IF k > Len(calls) THEN d
    ELSE LET c == calls[k]
         IN  IF c.op = "create_attribute"
             THEN ApplyCallsUntilRefused(create_attribute(d, c.dataset, c.attr),
                                         calls, at, conflicts, k + 1)
             ELSE IF c.op = "store_stav"
             THEN IF k \in conflicts THEN Rollback(d)
                  ELSE ApplyCallsUntilRefused(
                          Stamp(d, store_stav(d, at.scrape_id, at.geounit_id, at.vtime,
                                              c.attr, c.val, at.csv_row, c.csv_col,
                                              FALSE), at.by),
                          calls, at, conflicts, k + 1)
             ELSE ApplyCallsUntilRefused(d, calls, at, conflicts, k + 1)

RECURSIVE ApplyCalls(_, _, _, _, _)
\* the stores after the calls of a branch from the k-th on; at is the row's
\* scrape_id, geounit_id, valid time, row number and file, conflicts the positions
\* of the calls whose fact INSERT raises IntegrityError
ApplyCalls(d, calls, at, conflicts, k) ==
    IF k > Len(calls) THEN d
    ELSE LET c == calls[k]
             d1 == IF c.op = "create_attribute"
                   THEN create_attribute(d, c.dataset, c.attr)
                   ELSE IF c.op = "store_stav"
                   THEN Stamp(d, store_stav(d, at.scrape_id, at.geounit_id, at.vtime,
                                            c.attr, c.val, at.csv_row, c.csv_col,
                                            k \in conflicts), at.by)
                   ELSE d
         IN  ApplyCalls(d1, calls, at, conflicts, k + 1)

\* the positions of the create_attribute calls of a branch whose key the
\* attribute registry d holds (line 64: the INSERT raises IntegrityError)
Existing(d, calls) ==
    { k \in DOMAIN calls :
        /\ calls[k].op = "create_attribute"
        /\ \E a \in d.attributes :
              a.dataset_id = calls[k].dataset /\ a.attr = calls[k].attr }

\* the positions of the calls of a branch whose fact INSERT failed
Conflicting(calls, conflicts) ==
    { k \in DOMAIN calls : calls[k].op = "store_stav" /\ k \in conflicts }

(***************************************************************************)
(* ScrapeKeyResolver, first half (csvloader.py:299-338): provider, vendor  *)
(* and dataset are saved when the row's provider differs from the carried  *)
(* one.                                                                    *)
(***************************************************************************)
CanonicalProvider == "doe-covid19"

\* csvloader.py:300
ProviderChanged(row, provider) == Get(row, "provider") # provider

\* csvloader.py:311-315
VendorOf(provider_id, state) ==
    IF provider_id = CanonicalProvider THEN << "US^", state >> ELSE << provider_id >>

DatasetOf(provider_id, state) ==
    IF provider_id = CanonicalProvider
    THEN VendorOf(provider_id, state) \o << ":COVID19" >>
    ELSE << provider_id >>

\* csvloader.py:300-338; exc is the TypeError of 'US^' + None
SaveProvider(d, row, provider, vendor, dataset) ==
    IF ~ProviderChanged(row, provider)
    THEN [db |-> d, provider |-> provider, vendor |-> vendor,
          dataset |-> dataset, exc |-> None]
    ELSE LET p  == Get(row, "provider")
             d1 == InsertProvider(d, p)
         IN  IF p = CanonicalProvider /\ Get(row, "state") = None
             THEN [db |-> d1, provider |-> p, vendor |-> vendor,
                   dataset |-> dataset, exc |-> "TypeError"]
             ELSE LET v  == VendorOf(p, Get(row, "state"))
                      ds == DatasetOf(p, Get(row, "state"))
                  IN  [db |-> InsertDataset(InsertVendor(d1, v), v, ds),
                       provider |-> p, vendor |-> v, dataset |-> ds,
                       exc |-> None]

(***************************************************************************)
(* State.  The stores, the arguments of the running load(), the position   *)
(* in its stream, the file-level variables of csvloader.py:193-201, and    *)
(* what the last iteration of the row loop did.                            *)
(***************************************************************************)
VARIABLES
    db,                  \* self.db: the stores
    dry_run,             \* self._dry_run
    pc,                  \* "idle", "loop", "returned" or "raised"
    loads,               \* load() calls so far
    fname, op, rows,     \* arguments of load()
    header,              \* the columns of the stream's header
    row_no,              \* enumerate(csvr): number of the next row
    simpl_vals_prev, id_vals_prev, row_prev,
    group_row, group_type, group_hospital_name,
    provider, vendor, dataset,
    current_range, missing_columns,
    last,                \* the last iteration: its row, its exit, its calls
    ingested,            \* the files of which a row has stored a fact
    inv                  \* the load() calls of other processes on these stores

vars == << db, dry_run, pc, loads, fname, op, rows, header, row_no,
           simpl_vals_prev, id_vals_prev, row_prev,
           group_row, group_type, group_hospital_name,
           provider, vendor, dataset, current_range, missing_columns, last,
           ingested, inv >>

\* row_prev = None
NoRow == [keys |-> << >>, val |-> << >>]

NoLast ==
    [row_no |-> -1, exit |-> "none", exc |-> None, row |-> NoRow,
     carried_group |-> GroupNone, carried_id_vals |-> << >>, carried_counter |-> 0,
     group_type |-> GroupNone, group_row |-> 0,
     id_vals |-> << >>, access_ts |-> << >>, calls |-> << >>, conflicts |-> {},
     existing |-> {}]

\* the processes that call load() at the same time, each on a connection of
\* its own and on a file of its own
Invocations == { 1, 2 }

FileOf(i) == IF i = 1 THEN "a.csv" ELSE "b.csv"

\* a process outside load(): the statement it is at, the arguments of its
\* call and what the loop body derives from its line, the result of the SELECT of lines 394-400, the scrape
\* id fetched at line 412, the exception that ended the call, the count of
\* line 210, the count logged at line 217, and two history values: the
\* facts its DELETE removed, and by how many facts the other processes
\* changed the store between the reads of lines 209 and 215
NoInvocation ==
    [pc |-> "idle", loads |-> 0, op |-> None, line |-> << >>,
     found |-> << >>, scrape_id |-> 0, exc |-> None,
     cnt |-> 0, reported |-> << >>, removed |-> 0, others |-> 0]

\* csvloader.py:193-201
Init ==
    /\ db = EmptyDb
    /\ dry_run = FALSE
    /\ pc = "idle"
    /\ loads = 0
    /\ fname = None /\ op = None /\ rows = << >>
    /\ header = {}
    /\ row_no = 0
    /\ simpl_vals_prev = << >> /\ id_vals_prev = << >> /\ row_prev = NoRow
    /\ group_row = 0 /\ group_type = GroupNone /\ group_hospital_name = None
    /\ provider = None /\ vendor = None /\ dataset = NoDataset
    /\ current_range = 0 /\ missing_columns = << >>
    /\ last = NoLast
    /\ ingested = {}
    /\ inv = [i \in Invocations |-> NoInvocation]

(***************************************************************************)
(* One iteration of the row loop (csvloader.py:229-796) on the line whose  *)
(* cells are given, started with the variables st: the values of every    *)
(* variable after it.  conflicts are the positions of the branch's calls   *)
(* whose fact INSERT is refused.                                           *)
(***************************************************************************)
IterationFrom(st, cells, conflicts) ==
    LET keep ==
            [pc |-> "loop", db |-> st.db,
             provider |-> st.provider, vendor |-> st.vendor, dataset |-> st.dataset,
             current_range |-> st.current_range, missing_columns |-> st.missing_columns,
             group_type |-> st.group_type, group_hospital_name |-> st.group_hospital_name,
             group_row |-> st.group_row,
             id_vals_prev |-> st.id_vals_prev, simpl_vals_prev |-> st.simpl_vals_prev,
             row_prev |-> st.row_prev,
             last |-> [NoLast EXCEPT !.row_no = st.row_no,
                                     !.carried_group = st.group_type,
                                     !.carried_id_vals = st.id_vals_prev,
                                     !.carried_counter = st.group_row,
                                     !.group_type = st.group_type,
                                     !.group_row = st.group_row]]
        \* lines 232-238
        row0 == NormalizeRow(RawRow(st.header, cells))
    IN
    \* lines 241-249
    IF st.row_no = 0 /\ MissingEssential(row0) # None
    THEN [keep EXCEPT !.pc = "returned", !.last.exit = "break_header", !.last.row = row0]
    \* lines 252-255
    ELSE IF ~Has(row0, "access_time")
    THEN [keep EXCEPT !.pc = "raised", !.last.exit = "raised",
                      !.last.exc = "KeyError", !.last.row = row0]
    ELSE IF ~Truthy(Get(row0, "access_time"))
    THEN [keep EXCEPT !.last.exit = "skip_access_time", !.last.row = row0]
    ELSE
    LET \* lines 256-279
        row1 == FillDefaults(row0)
        mc   == IF st.row_no = 0 THEN MissingColumns(row1) ELSE st.missing_columns
        row2 == FillMissing(row1, mc)
        k2   == [keep EXCEPT !.missing_columns = mc, !.last.row = row2]
        \* lines 282-292
        rf   == RangeFilter(st.rows, st.current_range, st.row_no)
        k3   == [k2 EXCEPT !.current_range = rf.current_range]
    IN
    IF rf.verdict = "IndexError"
    THEN [k3 EXCEPT !.pc = "raised", !.last.exit = "raised", !.last.exc = "IndexError"]
    ELSE IF rf.verdict = "skip"
    THEN [k3 EXCEPT !.last.exit = "skip_range"]
    ELSE IF rf.verdict = "break"
    THEN [k3 EXCEPT !.pc = "returned", !.last.exit = "break_range"]
    \* lines 295-297
    ELSE IF AllEmpty(row2)
    THEN [k3 EXCEPT !.last.exit = "skip_empty"]
    ELSE
    LET \* lines 300-338
        sp == SaveProvider(st.db, row2, st.provider, st.vendor, st.dataset)
        k4 == [k3 EXCEPT !.db = sp.db, !.provider = sp.provider,
                         !.vendor = sp.vendor, !.dataset = sp.dataset]
        \* lines 341-351
        parsed_time == DateParserParse(Get(row2, "access_time"))
    IN
    IF sp.exc # None
    THEN [k4 EXCEPT !.pc = "raised", !.last.exit = "raised", !.last.exc = sp.exc]
    ELSE IF parsed_time = << >>
    THEN [k4 EXCEPT !.last.exit = "skip_unparsable_access_time"]
    ELSE
    LET access_ts == parsed_time[1]
        \* lines 358-387
        vt == ResolveValidTime(row2, st.id_vals_prev, access_ts)
        k5 == [k4 EXCEPT !.last.access_ts = parsed_time]
    IN
    IF vt.kind = "raise"
    THEN [k5 EXCEPT !.pc = "raised", !.last.exit = "raised", !.last.exc = vt.exc]
    ELSE IF vt.kind = "skip"
    THEN [k5 EXCEPT !.last.exit = "skip_unparsable_updated"]
    \* lines 390-393
    ELSE IF ~Truthy(Get(row2, "url"))
    THEN [k5 EXCEPT !.last.exit = "skip_url"]
    \* line 409: row['page'] of the INSERT
    ELSE IF /\ ~Has(row2, "page")
            /\ ScrapeNotFound(sp.db, Get(row2, "provider"), Get(row2, "url"), access_ts)
    THEN [k5 EXCEPT !.pc = "raised", !.last.exit = "raised", !.last.exc = "KeyError"]
    ELSE
    LET valid_time == vt.valid_time
        \* lines 394-412
        rs == ResolveScrape(sp.db, Get(row2, "provider"), Get(row2, "url"),
                            sp.dataset, access_ts,
                            IF Has(row2, "page") THEN Get(row2, "page") ELSE None,
                            st.fname, st.row_no)
        scrape_id == rs.scrape_id
        \* lines 415-443
        cl == Classify(st.group_type, row2)
        k6 == [k5 EXCEPT !.db = rs.db, !.group_type = cl.group_type,
                         !.last.group_type = cl.group_type]
    IN
    IF cl.header
    THEN IF ~Has(row2, "other_value")
         THEN [k6 EXCEPT !.pc = "raised", !.last.exit = "raised", !.last.exc = "KeyError"]
         ELSE [k6 EXCEPT !.group_hospital_name = Get(row2, "other_value"),
                         !.group_row = 0,
                         !.last.group_row = 0,
                         !.last.exit = "facility_header"]
    \* lines 449-462: row[c] of a column the row lacks
    ELSE IF \/ \E c \in {"country", "state", "county", "region"} : ~Has(row2, c)
            \/ cl.group_type # GroupHospital /\ ~Has(row2, "resolution")
    THEN [k6 EXCEPT !.pc = "raised", !.last.exit = "raised", !.last.exc = "KeyError"]
    \* line 457: "$" + None
    ELSE IF cl.group_type = GroupHospital /\ st.group_hospital_name = None
    THEN [k6 EXCEPT !.pc = "raised", !.last.exit = "raised", !.last.exc = "TypeError"]
    ELSE
    LET \* lines 449-466
        geounit_id == GeoUnitId(row2, cl.group_type, st.group_hospital_name)
        row == SetKey(row2, "resolution", GeoUnitResolution(row2, cl.group_type))
        db7 == InsertGeounit(rs.db, geounit_id, Get(row, "resolution"))
        k7  == [k6 EXCEPT !.db = db7, !.last.row = row]
        \* lines 469-474
        id_vals == << scrape_id, geounit_id, valid_time >>
        simpl_vals == SimplVals(id_vals, row)
        id_prev    == PrevAtRow(st.row_no, id_vals, st.id_vals_prev)
        simpl_prev == PrevAtRow(st.row_no, simpl_vals, st.simpl_vals_prev)
        r_prev     == PrevAtRow(st.row_no, row, st.row_prev)
        \* lines 483-487
        counter == CounterUpdate(st.group_row, id_vals, id_prev, cl.group_type)
        \* lines 490-791
        calls == Extract(row, r_prev, sp.dataset, cl.group_type, counter,
                         simpl_vals, simpl_prev)
        db8 == ApplyCalls(db7, Executed(calls),
                          [scrape_id |-> scrape_id, geounit_id |-> geounit_id,
                           vtime |-> valid_time, csv_row |-> st.row_no,
                           by |-> st.fname],
                          conflicts, 1)
        k8 == [k6 EXCEPT !.db = db8, !.group_row = counter,
                         !.last.row = row,
                         !.last.group_row = counter,
                         !.last.id_vals = id_vals,
                         !.last.calls = Executed(calls),
                         !.last.conflicts = Conflicting(Executed(calls), conflicts),
                         !.last.existing = Existing(db7, Executed(calls))]
    IN
    \* line 470: row[r] of a simple attribute the row lacks
    IF \E a \in Range(simple_attrs) : ~Has(row, a)
    THEN [k7 EXCEPT !.pc = "raised", !.last.exit = "raised", !.last.exc = "KeyError"]
    ELSE IF RaisedBy(calls) # None
    THEN [k8 EXCEPT !.pc = "raised", !.last.exit = "raised",
                    !.last.exc = RaisedBy(calls),
                    !.id_vals_prev = id_prev, !.simpl_vals_prev = simpl_prev,
                    !.row_prev = r_prev]
    \* lines 793-796
    ELSE [k8 EXCEPT !.last.exit = "extracted",
                    !.id_vals_prev = id_vals, !.simpl_vals_prev = simpl_vals,
                    !.row_prev = row]

\* the loader's variables as the loop body reads them
Current ==
    [db |-> db, provider |-> provider, vendor |-> vendor, dataset |-> dataset,
     current_range |-> current_range, missing_columns |-> missing_columns,
     group_type |-> group_type, group_hospital_name |-> group_hospital_name,
     group_row |-> group_row, id_vals_prev |-> id_vals_prev,
     simpl_vals_prev |-> simpl_vals_prev, row_prev |-> row_prev,
     row_no |-> row_no, header |-> header, rows |-> rows, fname |-> fname]

\* the loop body on the loader's own variables
Iteration(cells, conflicts) == IterationFrom(Current, cells, conflicts)

(***************************************************************************)
(* Actions.                                                                *)
(***************************************************************************)
\* lines 207-219 were the geounits no remaining fact refers to deleted too
DeleteFileAndGeounits(d, f) ==
    LET gone == { x.scrape_id : x \in { y \in d.scrapes : y.csv_file = f } }
        kept == SelectSeq(d.stav, LAMBDA fact : fact.scrape_id \notin gone)
    IN  Commit(Execute(d,
            [d EXCEPT !.scrapes = { x \in @ : x.csv_file # f },
                      !.stav = kept,
                      !.geounits = { g \in @ : \E k \in DOMAIN kept :
                                                  kept[k].geounit_id = g.geounit_id }]))

\* csvloader.py:207-219: DELETE FROM scrapes WHERE csv_file = f; the facts
\* of a deleted scrape go with it (the count of line 215 is read to differ)
DeleteFile(d, f) ==
    LET gone == { x.scrape_id : x \in { y \in d.scrapes : y.csv_file = f } }
    IN  Commit(Execute(d,
            [d EXCEPT !.scrapes = { x \in @ : x.csv_file # f },
                      !.stav = SelectSeq(@, LAMBDA fact : fact.scrape_id \notin gone)]))

\* csvloader.py:222-225: the SELECT of `new` finds a scrape of the file
AlreadyLoaded(d, f) == \E x \in d.scrapes : x.csv_file = f

\* a statement sent to the database
Sql(text) == [op |-> "execute", sql |-> text]

\* lines 203-227 were the dry-run test made after the handling of op
PrologueDryRunLast(dry, o, d, f) ==
    IF o = "replace"
    THEN [pc |-> IF dry THEN "returned" ELSE "loop", db |-> DeleteFile(d, f),
          calls |-> << Sql("SELECT count(*) FROM stav"),
                       Sql("DELETE FROM scrapes WHERE csv_file"),
                       Sql("SELECT count(*) FROM stav"), [op |-> "commit"] >>]
    ELSE IF o = "new"
    THEN [pc |-> IF dry \/ AlreadyLoaded(d, f) THEN "returned" ELSE "loop", db |-> d,
          calls |-> << Sql("SELECT * FROM scrapes WHERE csv_file") >>]
    ELSE [pc |-> IF dry THEN "returned" ELSE "loop", db |-> d, calls |-> << >>]

\* csvloader.py:203-227: what load does before the row loop: where it goes
\* on, the database it leaves, and the statements it issued
Prologue(dry, o, d, f) ==
    IF dry
    THEN [pc |-> "returned", db |-> d, calls |-> << >>]
    ELSE IF o = "replace"
    THEN [pc |-> "loop", db |-> DeleteFile(d, f),
          calls |-> << Sql("SELECT count(*) FROM stav"),
                       Sql("DELETE FROM scrapes WHERE csv_file"),
                       Sql("SELECT count(*) FROM stav"), [op |-> "commit"] >>]
    ELSE IF o = "new"
    THEN [pc |-> IF AlreadyLoaded(d, f) THEN "returned" ELSE "loop", db |-> d,
          calls |-> << Sql("SELECT * FROM scrapes WHERE csv_file") >>]
    ELSE [pc |-> "loop", db |-> d, calls |-> << >>]

\* csvloader.py:172-227: load(csv_stream, fname=f, op=o, rows=rs) on a
\* stream whose header is h
Load(f, o, rs, h) ==
    /\ pc # "loop"
    /\ loads' = loads + 1
    /\ fname' = f /\ op' = o /\ rows' = rs /\ header' = h
    /\ row_no' = 0
    /\ simpl_vals_prev' = << >> /\ id_vals_prev' = << >> /\ row_prev' = NoRow
    /\ group_row' = 0 /\ group_type' = GroupNone /\ group_hospital_name' = None
    /\ provider' = None /\ vendor' = None /\ dataset' = NoDataset
    /\ current_range' = 0 /\ missing_columns' = << >>
    /\ \E p \in { Prologue(dry_run, o, db, f) } :
           /\ pc' = p.pc /\ db' = p.db
           /\ last' = [NoLast EXCEPT !.calls = p.calls]
    /\ UNCHANGED << dry_run, ingested, inv >>

\* csvloader.py:26-38: CSVLoader(db, dry_run=d), a loader constructed on the
\* database as it is
Construct(d) ==
    /\ pc # "loop"
    /\ dry_run # d
    /\ dry_run' = d
    /\ UNCHANGED << db, pc, loads, fname, op, rows, header, row_no,
                    simpl_vals_prev, id_vals_prev, row_prev,
                    group_row, group_type, group_hospital_name,
                    provider, vendor, dataset, current_range, missing_columns, last,
                    ingested, inv >>

\* csvloader.py:229-796: the loop body on the next line of the stream
ReadRow(cells, conflicts) ==
    /\ pc = "loop"
    /\ \E n \in { Iteration(cells, conflicts) } :
           /\ pc' = n.pc
           /\ db' = n.db
           /\ provider' = n.provider /\ vendor' = n.vendor /\ dataset' = n.dataset
           /\ current_range' = n.current_range
           /\ missing_columns' = n.missing_columns
           /\ group_type' = n.group_type
           /\ group_hospital_name' = n.group_hospital_name
           /\ group_row' = n.group_row
           /\ id_vals_prev' = n.id_vals_prev
           /\ simpl_vals_prev' = n.simpl_vals_prev
           /\ row_prev' = n.row_prev
           /\ last' = n.last
           /\ ingested' = IF Len(n.db.stav) > Len(db.stav)
                           THEN ingested \cup {fname} ELSE ingested
    /\ row_no' = row_no + 1
    /\ UNCHANGED << dry_run, loads, fname, op, rows, header, inv >>

\* csvloader.py:229, 798-799: the stream has no further line
EndOfStream ==
    /\ pc = "loop"
    /\ pc' = "returned"
    /\ UNCHANGED << db, dry_run, loads, fname, op, rows, header, row_no,
                    simpl_vals_prev, id_vals_prev, row_prev,
                    group_row, group_type, group_hospital_name,
                    provider, vendor, dataset, current_range, missing_columns, last,
                    ingested, inv >>

(***************************************************************************)
(* load() in several processes at once.  Each process has a connection of  *)
(* its own, commits every statement, and loads a file of one line; a step  *)
(* is one statement, so the statements of the processes interleave freely. *)
(* A statement's effect is taken to reach the other connections when it    *)
(* executes.                                                               *)
(***************************************************************************)
\* the variables of a load of file f before its first line
FirstLine(f) ==
    [db |-> EmptyDb, provider |-> None, vendor |-> None, dataset |-> NoDataset,
     current_range |-> 0, missing_columns |-> << >>,
     group_type |-> GroupNone, group_hospital_name |-> None,
     group_row |-> 0, id_vals_prev |-> << >>,
     simpl_vals_prev |-> << >>, row_prev |-> NoRow,
     row_no |-> 0, header |-> AllColumns, rows |-> << >>, fname |-> f]

\* what the loop body n derives from the one line of a file: the provider,
\* vendor and dataset, the url, page and fetch time, the geounit and its
\* resolution, the valid time and the calls of the row's branch
Derived(n) ==
        [provider |-> n.provider, vendor |-> n.vendor, dataset |-> n.dataset,
         url |-> Get(n.last.row, "url"), page |-> Get(n.last.row, "page"),
         access_ts |-> n.last.access_ts[1],
         geounit_id |-> n.last.id_vals[2],
         resolution |-> Get(n.last.row, "resolution"),
         vtime |-> n.last.id_vals[3], calls |-> n.last.calls]

\* line 216: cnt -= the second count
RemovedCountSecondRead(cnt, recount) == recount

\* csvloader.py:210, 215-216
RemovedCount(cnt, recount) == cnt - recount

\* the history value `others` of a process between its two reads, after a
\* statement of another process changed the number of facts by delta
Noted(r, delta) ==
    IF r.pc \in { "delete", "recount" } THEN [r EXCEPT !.others = @ + delta] ELSE r

\* a statement of process i: the stores after it and the process after it
Statement(i, d, r) ==
    /\ \E after \in { << d, r >> } :
          /\ db' = after[1]
          /\ inv' = [j \in Invocations |->
                       IF j = i THEN after[2]
                       ELSE Noted(inv[j], Len(after[1].stav) - Len(db.stav))]
    /\ UNCHANGED << dry_run, pc, loads, fname, op, rows, header, row_no,
                    simpl_vals_prev, id_vals_prev, row_prev,
                    group_row, group_type, group_hospital_name,
                    provider, vendor, dataset, current_range, missing_columns,
                    last, ingested >>

\* csvloader.py:172-227: process i calls load(fname=FileOf(i), op=o) on a
\* stream of the one line cells; the SELECT of `new` (lines 222-225)
CallLoad(i, o, cells, max_loads) ==
    /\ inv[i].pc \in { "idle", "returned" }
    /\ inv[i].loads < max_loads
    /\ \E n \in { IterationFrom(FirstLine(FileOf(i)), cells, {}) } :
        Statement(i, db,
          [NoInvocation EXCEPT
              !.loads = inv[i].loads + 1, !.op = o,
              !.line = Derived(n),
              !.pc = IF o = "replace" THEN "count"
                     ELSE IF o = "new" /\ AlreadyLoaded(db, FileOf(i)) THEN "returned"
                     ELSE "provider"])

\* csvloader.py:209-210
CountFacts(i) ==
    /\ inv[i].pc = "count"
    /\ Statement(i, db, [inv[i] EXCEPT !.pc = "delete", !.cnt = Len(db.stav)])

\* csvloader.py:211-213
DeleteScrapes(i) ==
    /\ inv[i].pc = "delete"
    /\ \E d \in { DeleteFile(db, FileOf(i)) } :
          Statement(i, d, [inv[i] EXCEPT !.pc = "recount",
                                         !.removed = Len(db.stav) - Len(d.stav)])

\* csvloader.py:214-219
Recount(i) ==
    /\ inv[i].pc = "recount"
    /\ Statement(i, db,
          [inv[i] EXCEPT !.pc = "provider",
                         !.reported = << RemovedCount(inv[i].cnt, Len(db.stav)) >>])

\* csvloader.py:300-309
SaveProviderStatement(i) ==
    /\ inv[i].pc = "provider"
    /\ Statement(i, InsertProvider(db, inv[i].line.provider),
                 [inv[i] EXCEPT !.pc = "vendor"])

\* csvloader.py:311-326
SaveVendorStatement(i) ==
    /\ inv[i].pc = "vendor"
    /\ Statement(i, InsertVendor(db, inv[i].line.vendor),
                 [inv[i] EXCEPT !.pc = "dataset"])

\* csvloader.py:328-338
SaveDatasetStatement(i) ==
    /\ inv[i].pc = "dataset"
    /\ Statement(i, InsertDataset(db, inv[i].line.vendor, inv[i].line.dataset),
                 [inv[i] EXCEPT !.pc = "select"])

\* csvloader.py:394-401: the SELECT, and the scrapes it returns
SelectScrape(i) ==
    /\ inv[i].pc = "select"
    /\ \E n \in { inv[i].line } :
          LET found == SelectScrapes(db, n.provider, n.url, n.access_ts)
          IN  Statement(i, db,
                [inv[i] EXCEPT
                    !.pc = "insert",
                    !.found = IF found = {} THEN << >>
                              ELSE << (CHOOSE x \in found :
                                         \A y \in found : x.scrape_id <= y.scrape_id).scrape_id >>])

\* csvloader.py:401-412: the INSERT when the SELECT returned nothing, which
\* the unique key (provider, uri, fetch timestamp) of the scrapes refuses
\* with IntegrityError when another process has inserted the triple since;
\* nothing catches it.  Then the fetch of the scrape id.
InsertScrape(i) ==
    /\ inv[i].pc = "insert"
    /\ \E n \in { inv[i].line } :
          IF inv[i].found # << >>
          THEN Statement(i, db, [inv[i] EXCEPT !.pc = "geounit",
                                              !.scrape_id = inv[i].found[1]])
          ELSE IF ~ScrapeNotFound(db, n.provider, n.url, n.access_ts)
          THEN Statement(i, db, [inv[i] EXCEPT !.pc = "raised",
                                              !.exc = "IntegrityError"])
          ELSE \E rs \in { ResolveScrape(db, n.provider, n.url, n.dataset,
                                         n.access_ts, n.page, FileOf(i), 0) } :
                  Statement(i, rs.db, [inv[i] EXCEPT !.pc = "geounit",
                                                    !.scrape_id = rs.scrape_id])

\* csvloader.py:448-466
SaveGeounitStatement(i) ==
    /\ inv[i].pc = "geounit"
    /\ Statement(i, InsertGeounit(db, inv[i].line.geounit_id, inv[i].line.resolution),
                 [inv[i] EXCEPT !.pc = "extract"])

\* the fact INSERTs of a row under scrape_id that the store refuses: all of
\* them when the scrape is gone (the foreign key of stav), else none
RefusedUnder(d, scrape_id, calls) ==
    IF \E x \in d.scrapes : x.scrape_id = scrape_id THEN {} ELSE DOMAIN calls

\* csvloader.py:468-799: the calls of the row's branch, and the return at
\* the end of the stream
ExtractStatements(i) ==
    /\ inv[i].pc = "extract"
    /\ \E n \in { inv[i].line } :
          Statement(i,
                    ApplyCalls(db, n.calls,
                               [scrape_id |-> inv[i].scrape_id,
                                geounit_id |-> n.geounit_id,
                                vtime |-> n.vtime, csv_row |-> 0,
                                by |-> FileOf(i)],
                               RefusedUnder(db, inv[i].scrape_id, n.calls), 1),
                    [inv[i] EXCEPT !.pc = "returned"])

\* the next statement of a process in the `replace` block of load()
ReplaceStatement(i) ==
    \/ CountFacts(i)
    \/ DeleteScrapes(i)
    \/ Recount(i)

\* the next statement of a process in the row loop of load()
RowStatement(i) ==
    \/ SaveProviderStatement(i)
    \/ SaveVendorStatement(i)
    \/ SaveDatasetStatement(i)
    \/ SelectScrape(i)
    \/ InsertScrape(i)
    \/ SaveGeounitStatement(i)
    \/ ExtractStatements(i)

(***************************************************************************)
(* Inputs.  A line is given by its cells, one text per column; the lines   *)
(* below vary the columns a specification is about around a plain line.    *)
(***************************************************************************)
PlainCells ==
    [c \in AllColumns |->
        CASE c = "access_time" -> "2020-04-01 08:00"
          [] c = "provider"    -> "doe-covid19"
          [] c = "country"     -> "us"
          [] c = "state"       -> "tn"
          [] c = "url"         -> "http://u1"
          [] c = "cases"       -> "10"
          [] OTHER             -> ""]

\* lines for the group-row counter: age group or none, two values of
\* `cases`, two states, a facility header, and a line without access_time
CounterCells ==
    { [PlainCells EXCEPT !["age_range"] = a, !["cases"] = c, !["state"] = st] :
        a \in {"", "0-9"}, c \in {"10", " 12 "}, st \in {"tn", "va"} }
    \cup { [PlainCells EXCEPT !["other"] = "HospitalName", !["other_value"] = "Mercy"],
           [PlainCells EXCEPT !["access_time"] = " "] }

\* lines for the classifier: every combination of the four group columns
ClassifyCells ==
    { [PlainCells EXCEPT !["age_range"] = a, !["sex"] = sx,
                         !["other"] = o, !["other_value"] = ov] :
        a \in {"", "0-9"}, sx \in {"", "F", "M"},
        o \in {"", "HospitalName", "Comorbid  Asthma"},
        ov \in {"", "Mercy", "5"} }

\* lines for the range filter: two plain lines and one without access_time
RangeCells ==
    { PlainCells,
      [PlainCells EXCEPT !["state"] = "va", !["cases"] = "12"],
      [PlainCells EXCEPT !["access_time"] = ""] }

\* the rows arguments tried
RangeLists ==
    { << >>,
      << <<0, 1>> >>,
      << <<1>> >>,
      << <<0>>, <<2>> >>,
      << <<0, 1>>, <<2, 3>> >>,
      << <<1, 1>>, <<3, 3>> >> }

\* lines for the time resolver
TimeCells ==
    { [PlainCells EXCEPT !["access_time"] = at, !["updated"] = u] :
        at \in {"2020-04-01 08:00", "2020-04-02 08:00", "yesterday-ish"},
        u \in {"", "{'year':2020,'month':3,'day':29}", "{'year':2020,'month':4}",
               "{'year':2020,'month':4,'day':31}", "{year: 2020",
               "2020-03-30", "n/a"} }
    \cup { [PlainCells EXCEPT !["url"] = ""],
           [PlainCells EXCEPT !["other"] = "HospitalName", !["other_value"] = "Mercy",
                              !["updated"] = "3/31/2020"] }

\* lines for the scrape key: two spellings of one timestamp, a second
\* timestamp, a second url
ScrapeCells ==
    { PlainCells,
      [PlainCells EXCEPT !["access_time"] = "April 1 2020 8am", !["cases"] = "12"],
      [PlainCells EXCEPT !["access_time"] = "2020-04-01 20:00"] }

\* lines for the dataset: the canonical provider, its alias `state`, another
\* provider, two states
DatasetCells ==
    { [PlainCells EXCEPT !["provider"] = pr, !["state"] = st] :
        pr \in {"doe-covid19", "state", "jhu"}, st \in {"tn", "va"} }

\* lines for the geounit: country, county and region in two spellings or
\* empty, a resolution, and facility headers
GeoCells ==
    { [PlainCells EXCEPT !["country"] = co, !["county"] = cy, !["region"] = rg,
                         !["resolution"] = "county"] :
        co \in {"us", ""}, cy \in {"", "knox", " Knox "}, rg \in {"", "East", "east"} }
    \cup { [PlainCells EXCEPT !["other"] = "HospitalName", !["other_value"] = hn] :
             hn \in {"Mercy", "MERCY", ""} }

\* lines for the stores: two providers, two states, and either a count of
\* cases at state resolution or percentages of cases and deaths at none
StoreCells ==
    { [PlainCells EXCEPT !["provider"] = pr, !["state"] = st,
                         !["deaths"] = v[1], !["percent"] = v[2],
                         !["resolution"] = v[3]] :
        pr \in {"doe-covid19", "jhu"}, st \in {"tn", "va"},
        v \in { << "", "", "state" >>, << "5", "yes", "" >> } }

\* the fact INSERTs the store refuses: none, the row's first, or its second
Refusals == { {}, {2}, {4} }

\* lines for the repeated simple values: no group and the five groups of
\* age, sex and other in one state, an age group in another, `cases` empty
\* or one of two values, and a facility header
MismatchCells ==
    { [PlainCells EXCEPT !["age_range"] = g[1], !["sex"] = g[2],
                         !["other"] = g[3], !["other_value"] = g[4],
                         !["state"] = g[5], !["cases"] = c] :
        g \in { << "", "", "", "", "tn" >>,
                << "0-9", "", "", "", "tn" >>, << "0-9", "", "", "", "va" >>,
                << "0-9", "", "Comorbid  Asthma", "5", "tn" >>,
                << "", "F", "", "", "tn" >>, << "", "F", "Comorbid  Asthma", "5", "tn" >>,
                << "0-9", "F", "", "", "tn" >> },
        c \in {"", "10", "12"} }
    \cup { [PlainCells EXCEPT !["other"] = "HospitalName", !["other_value"] = "Mercy"] }

\* lines for the demographic groups: no group, two age ranges, a sex, an age
\* range with a sex, each with its group column populated, in two states
\* and with two values of the shared column `cases`
DemographicCells ==
    { [PlainCells EXCEPT !["age_range"] = g[1], !["sex"] = g[2],
                         !["age_cases"] = IF g[1] = "" THEN "" ELSE "4",
                         !["sex_cases"] = IF g[2] = "" THEN "" ELSE "3",
                         !["state"] = st, !["cases"] = c] :
        g \in { << "", "" >>, << "0-9", "" >>, << "10-19", "" >>,
                << "", "F" >>, << "0-9", "F" >> },
        st \in {"tn", "va"}, c \in {"10", "12"} }

\* lines for the reload: the same line from two pages
ReloadCells == { PlainCells, [PlainCells EXCEPT !["url"] = "http://u2"] }

\* a header without the provider column
NoProviderHeader == AllColumns \ { "provider" }

\* the headers of files written without an essential column
BrokenHeaders == { AllColumns \ { "state" }, AllColumns \ { "access_time" } }

\* a header without the columns manual scrapes leave out
ManualHeader ==
    AllColumns \ { "provider", "country", "county", "region", "page",
                   "resolution", "percent", "no_longer_monitored", "pending",
                   "quarantined", "other_value" }

(***************************************************************************)
(* Specifications: one load of one file for the per-row claims, several    *)
(* loads for the claims about the stores.                                  *)
(***************************************************************************)
\* load() is called, at most max_loads times, with arguments from the sets
StartLoad(files, ops, range_lists, headers, max_loads) ==
    /\ loads < max_loads
    /\ \E f \in files, o \in ops, rs \in range_lists, h \in headers : Load(f, o, rs, h)

\* the stream yields one more line, one of lines, up to max_rows lines
NextRow(lines, max_rows) ==
    /\ row_no < max_rows
    /\ \E cells \in lines : ReadRow(cells, {})

\* the same, some of the row's fact INSERTs being refused by the store
NextRowRefused(lines, refusals, max_rows) ==
    /\ row_no < max_rows
    /\ \E cells \in lines, conflicts \in refusals : ReadRow(cells, conflicts)

NextCounter ==
    \/ StartLoad({"a.csv"}, {"append"}, {<< >>}, {AllColumns}, 1)
    \/ NextRow(CounterCells, MaxCounterRows)
    \/ EndOfStream

SpecCounter == Init /\ [][NextCounter]_vars

NextClassify ==
    \/ StartLoad({"a.csv"}, {"append"}, {<< >>}, {AllColumns}, 1)
    \/ NextRow(ClassifyCells, MaxClassifyRows)
    \/ EndOfStream

SpecClassify == Init /\ [][NextClassify]_vars

NextRange ==
    \/ StartLoad({"a.csv"}, {"append"}, RangeLists, {AllColumns, ManualHeader}, 1)
    \/ NextRow(RangeCells, MaxRangeRows)
    \/ EndOfStream

SpecRange == Init /\ [][NextRange]_vars

NextTime ==
    \/ StartLoad({"a.csv"}, {"append"}, {<< >>}, {AllColumns}, 1)
    \/ NextRow(TimeCells, MaxTimeRows)
    \/ EndOfStream

SpecTime == Init /\ [][NextTime]_vars

NextScrape ==
    \/ StartLoad({"a.csv", "b.csv"}, {"append", "new", "replace"}, {<< >>},
                 {AllColumns}, MaxLoads)
    \/ NextRow(ScrapeCells, MaxScrapeRows)
    \/ EndOfStream

SpecScrape == Init /\ [][NextScrape]_vars

NextDataset ==
    \/ StartLoad({"a.csv"}, {"append"}, {<< >>}, {AllColumns, NoProviderHeader}, 1)
    \/ NextRow(DatasetCells, MaxDatasetRows)
    \/ EndOfStream

SpecDataset == Init /\ [][NextDataset]_vars

NextGeo ==
    \/ StartLoad({"a.csv"}, {"append"}, {<< >>}, {AllColumns}, 1)
    \/ NextRow(GeoCells, MaxGeoRows)
    \/ EndOfStream

SpecGeo == Init /\ [][NextGeo]_vars

NextMismatch ==
    \/ StartLoad({"a.csv"}, {"append"}, {<< >>}, {AllColumns}, 1)
    \/ NextRow(MismatchCells, MaxMismatchRows)
    \/ EndOfStream

SpecMismatch == Init /\ [][NextMismatch]_vars

NextReload ==
    \/ StartLoad({"a.csv", "b.csv"}, {"append", "new"}, {<< >>}, {AllColumns},
                 MaxReloads)
    \/ NextRow(ReloadCells, MaxReloadRows)
    \/ EndOfStream

SpecReload == Init /\ [][NextReload]_vars

NextReplace ==
    \/ StartLoad({"a.csv", "b.csv"}, {"append", "replace"}, {<< >>}, {AllColumns},
                 MaxReloads)
    \/ NextRow(ReloadCells, MaxReloadRows)
    \/ EndOfStream

SpecReplace == Init /\ [][NextReplace]_vars

NextHeader ==
    \/ StartLoad({"a.csv", "b.csv"}, {"append", "replace"}, {<< >>},
                 {AllColumns} \cup BrokenHeaders, MaxLoads)
    \/ NextRow(ReloadCells, MaxScrapeRows)
    \/ EndOfStream

SpecHeader == Init /\ [][NextHeader]_vars

\* lines for the percent column: empty, three spellings of yes, two other
\* texts; one or two simple columns populated
PercentCells ==
    { [PlainCells EXCEPT !["percent"] = pc_, !["deaths"] = d] :
        pc_ \in {"", "yes", "Yes", "YES", "no", "50"}, d \in {"", "5"} }

NextPercent ==
    \/ StartLoad({"a.csv"}, {"append"}, {<< >>}, {AllColumns}, 1)
    \/ NextRow(PercentCells, MaxPercentRows)
    \/ EndOfStream

SpecPercent == Init /\ [][NextPercent]_vars

\* processes that load under append and new at the same time
NextConcurrent ==
    \/ \E i \in Invocations, o \in { "append", "new" }, cells \in ReloadCells :
           CallLoad(i, o, cells, MaxConcurrentLoads)
    \/ \E i \in Invocations : RowStatement(i)

SpecConcurrent == Init /\ [][NextConcurrent]_vars

\* processes that load under append and replace at the same time
NextRecount ==
    \/ \E i \in Invocations, o \in { "append", "replace" } :
           CallLoad(i, o, PlainCells, MaxConcurrentLoads)
    \/ \E i \in Invocations : ReplaceStatement(i)
    \/ \E i \in Invocations : RowStatement(i)

SpecRecount == Init /\ [][NextRecount]_vars

NextDemographic ==
    \/ StartLoad({"a.csv"}, {"append"}, {<< >>}, {AllColumns}, 1)
    \/ NextRow(DemographicCells, MaxDemographicRows)
    \/ EndOfStream

SpecDemographic == Init /\ [][NextDemographic]_vars

\* lines for the hospital group: headers of two facilities, and lines with
\* and without an age range, a sex and another column
HospitalCells ==
    { [PlainCells EXCEPT !["other"] = "HospitalName", !["other_value"] = hn,
                         !["age_range"] = a] :
        hn \in {"Mercy", "5"}, a \in {"", "0-9"} }
    \cup { [PlainCells EXCEPT !["age_range"] = g[1], !["sex"] = g[2],
                              !["other"] = g[3], !["other_value"] = g[4]] :
             g \in { << "", "", "", "" >>, << "0-9", "", "", "" >>,
                     << "", "F", "", "" >>, << "0-9", "F", "ICU", "5" >> } }

NextHospital ==
    \/ StartLoad({"a.csv"}, {"append"}, {<< >>}, {AllColumns}, 2)
    \/ NextRow(HospitalCells, MaxHospitalRows)
    \/ EndOfStream

SpecHospital == Init /\ [][NextHospital]_vars

\* lines for the skips: rows of an age group in two states, a facility
\* header, and rows of the age group without a fetch time, with a fetch
\* time or an `updated` that is no date, and without a url
SkipCells ==
    { [PlainCells EXCEPT !["age_range"] = "0-9", !["state"] = st] :
        st \in {"tn", "va"} }
    \cup { [PlainCells EXCEPT !["other"] = "HospitalName", !["other_value"] = "Mercy"] }
    \cup { [PlainCells EXCEPT !["age_range"] = "0-9", !["state"] = "va", ![b[1]] = b[2]] :
             b \in { << "access_time", "" >>, << "access_time", "yesterday-ish" >>,
                     << "updated", "n/a" >>, << "url", "" >> } }

NextSkip ==
    \/ StartLoad({"a.csv"}, {"append"}, { << >>, << <<0, 1>> >>, << <<1, 1>>, <<3, 3>> >> },
                 {AllColumns}, 1)
    \/ NextRow(SkipCells, MaxSkipRows)
    \/ EndOfStream

SpecSkip == Init /\ [][NextSkip]_vars

\* lines for the `other` groups: an age range or a sex with a comorbidity
\* whose other_value is a text, a number or empty, `cases` in two values and
\* `deaths` empty or populated
ModifierCells ==
    { [PlainCells EXCEPT !["age_range"] = g[1], !["sex"] = g[2],
                         !["other"] = "Comorbid  Asthma", !["other_value"] = ov,
                         !["cases"] = c, !["deaths"] = d] :
        g \in { << "0-9", "" >>, << "", "F" >> }, ov \in {"Mercy", "5", ""},
        c \in {"10", "12"}, d \in {"", "5"} }

NextModifier ==
    \/ StartLoad({"a.csv"}, {"append"}, {<< >>}, {AllColumns}, 1)
    \/ NextRow(ModifierCells, MaxModifierRows)
    \/ EndOfStream

SpecModifier == Init /\ [][NextModifier]_vars

\* loads of two files with every op, by loaders constructed with and
\* without dry_run on one database
NextDryRun ==
    \/ StartLoad({"a.csv", "b.csv"}, {"append", "new", "replace"}, {<< >>},
                 {AllColumns}, MaxReloads)
    \/ NextRow(ReloadCells, MaxReloadRows)
    \/ EndOfStream
    \/ \E d \in BOOLEAN : Construct(d)

SpecDryRun == Init /\ [][NextDryRun]_vars

NextStore ==
    \/ StartLoad({"a.csv"}, {"append"}, {<< >>}, {AllColumns}, 1)
    \/ NextRowRefused(StoreCells, Refusals, MaxStoreRows)
    \/ EndOfStream

SpecStore == Init /\ [][NextStore]_vars

Next == NextCounter

Spec == SpecCounter

(***************************************************************************)
(* Properties.                                                             *)
(***************************************************************************)
\* the last iteration reached the classifier (csvloader.py:414)
Classified == last.exit \in {"facility_header", "extracted"}

\* the last iteration reached the counter update (csvloader.py:483)
Counted == last.id_vals # << >>

Cell(row, c) == IF Has(row, c) THEN Get(row, c) ELSE None

\* the facts of stav stored for file row n from column c
FactsOf(stav, n, c) == { i \in DOMAIN stav : stav[i].csv_row = n /\ stav[i].csv_col = c }

\* C1: for every row that reaches value extraction (file row 0 included),
\* the group-row counter after its update is 0 iff the row's identity tuple
\* differs from the previously processed row's (or there is none) or the
\* group is NONE; otherwise it is the carried counter plus 1.
C1_CounterZeroIffNewTupleOrNone ==
    Counted =>
        /\ last.group_row = 0 <=>
              \/ last.carried_id_vals = << >>
              \/ last.id_vals # last.carried_id_vals
              \/ last.group_type = GroupNone
        /\ last.group_row # 0 => last.group_row = last.carried_counter + 1

\* C2: of two consecutive admitted rows with one identity tuple, both AGE,
\* the first being the first row of its group (row 0 included) and the two
\* differing in `cases`: the first has counter 0 and its `cases` is stored,
\* the second has counter 1, its `cases` is not stored, a mismatch is logged.
C2_FirstAgeRowStoredSecondCompared ==
    [][ ( /\ last.exit = "extracted" /\ last'.exit = "extracted"
          /\ last.group_type = GroupAge /\ last'.group_type = GroupAge
          /\ last'.id_vals = last.id_vals
          /\ last.carried_id_vals # last.id_vals
          /\ Truthy(Get(last.row, "cases")) /\ Truthy(Get(last'.row, "cases"))
          /\ Get(last.row, "cases") # Get(last'.row, "cases") )
        => ( /\ last.group_row = 0
             /\ \E i \in FactsOf(db'.stav, last.row_no, "cases") :
                    db'.stav[i].val = Get(last.row, "cases")
             /\ last'.group_row = 1
             /\ FactsOf(db'.stav, last'.row_no, "cases") = {}
             /\ \E i \in DOMAIN last'.calls : last'.calls[i] = Warning("mismatch") )
      ]_vars

\* the columns the classifier reads
ClassifyColumns == { "age_range", "sex", "other", "other_value" }

\* the rows the classifier is given, cut to the columns it reads
ClassifyRows == { NormalizeRow(RawRow(ClassifyColumns, cells)) : cells \in ClassifyCells }

\* which of age_range, sex, other, other_value are populated
Populated(row) ==
    << Truthy(Get(row, "age_range")), Truthy(Get(row, "sex")),
       Truthy(Get(row, "other")), Truthy(Get(row, "other_value")) >>

GroupTypes ==
    { GroupNone, GroupAge, GroupAgeSex, GroupAgeOther, GroupSex, GroupSexOther,
      GroupHospital }

\* C3 as stated: every row gets one of the seven groups, and any row that
\* agrees with it on the four populated flags, under the same carried
\* "is HOSPITAL", gets the same group.
C3_GroupDependsOnFlagsOnly ==
    Classified =>
        /\ last.group_type \in GroupTypes
        /\ \A r \in ClassifyRows :
              Populated(r) = Populated(last.row)
              => Classify(last.carried_group, r).group_type = last.group_type

\* C3 amended: every row gets one of the seven groups, and any row that agrees
\* with it on the four populated flags and on whether `other` is the hospital
\* sentinel, under the same carried "is HOSPITAL", gets the same group.
C3_GroupDependsOnFlagsAndSentinel ==
    Classified =>
        /\ last.group_type \in GroupTypes
        /\ \A r \in ClassifyRows :
              /\ Populated(r) = Populated(last.row)
              /\ (Get(r, "other") = HospitalSentinel)
                    = (Get(last.row, "other") = HospitalSentinel)
              => Classify(last.carried_group, r).group_type = last.group_type

\* a row with `other` populated by another text than the sentinel was
\* classified NONE while not in HOSPITAL (a sentinel row with the same
\* flags is HOSPITAL)
C3_Witness ==
    /\ last.exit = "extracted"
    /\ last.carried_group # GroupHospital
    /\ last.group_type = GroupNone
    /\ Truthy(Get(last.row, "other"))
    /\ \E r \in ClassifyRows :
          /\ Populated(r) = Populated(last.row)
          /\ Get(r, "other") = HospitalSentinel

\* C4: when the carried state is not HOSPITAL the group follows the stated
\* priority for every combination of populated columns.
C4_Priority ==
    (Classified /\ last.carried_group # GroupHospital) =>
        LET age   == Truthy(Get(last.row, "age_range"))
            sex   == Truthy(Get(last.row, "sex"))
            other == Truthy(Get(last.row, "other"))
            hosp  == Get(last.row, "other") = HospitalSentinel
            g     == last.group_type
        IN  /\ (age /\ sex) => g = GroupAgeSex
            /\ (age /\ ~sex /\ other) => g = GroupAgeOther
            /\ (age /\ ~sex /\ ~other) => g = GroupAge
            /\ (~age /\ sex /\ other) => g = GroupSexOther
            /\ (~age /\ sex /\ ~other) => g = GroupSex
            /\ (~age /\ ~sex /\ hosp) => g = GroupHospital
            /\ (~age /\ ~sex /\ ~hosp) => g = GroupNone

\* a row with age_range, sex and other all populated was classified AGE_SEX
C4_Witness ==
    /\ last.exit = "extracted"
    /\ last.carried_group # GroupHospital
    /\ Truthy(Get(last.row, "age_range")) /\ Truthy(Get(last.row, "sex"))
    /\ Truthy(Get(last.row, "other"))
    /\ last.group_type = GroupAgeSex

\* C5: the unknown-subgroup error is never raised: whatever the rows, the
\* group the classifier produced is one an extraction branch handles.
C5_UnknownGroupUnreachable ==
    /\ last.exc # UnknownGroupBug[1].exc
    /\ Classified => last.group_type \in GroupTypes

\* a row of the last sub-branch of the sex dispatch was extracted
C5_Witness ==
    /\ last.exit = "extracted"
    /\ last.group_type = GroupSexOther
    /\ last.calls # << >>

\* row n lies inside range r, both bounds included; [n] is row n alone
RowInside(r, n) == IF Len(r) = 1 THEN n = r[1] ELSE r[1] <= n /\ n <= r[2]

\* the last bound of range r
UpperBound(r) == r[Len(r)]

\* the last iteration handled a line of a stream read with a list of ranges
RangedRow == rows # << >> /\ last.row_no >= 0

\* C6: with an ascending, non-overlapping list of ranges, an otherwise
\* admissible row (all columns present, access_time populated) has its
\* values extracted iff its number lies inside one of the ranges, bounds
\* included; the upper bound of the last range is processed.
C6_RowsInsideRangesProcessed ==
    (RangedRow /\ header = AllColumns /\ Truthy(Cell(last.row, "access_time")))
    => ( last.exit = "extracted"
         <=> \E i \in DOMAIN rows : RowInside(rows[i], last.row_no) )

\* C7: after every row, whether or not it was skipped for its empty
\* access_time, the range cursor stands past exactly the ranges whose upper
\* bound the row numbers have reached, and no row raises an error because
\* of the ranges.
C7_CursorPassesEveryReachedBound ==
    (RangedRow /\ last.exit # "break_header")
    => /\ current_range
            = Cardinality({ i \in DOMAIN rows : UpperBound(rows[i]) <= last.row_no })
       /\ last.exc # "IndexError"

\* the last iteration reached the resolution of the valid time
\* (csvloader.py:357)
TimeResolved == last.access_ts # << >>

\* C8: the valid time of a row that got one is the date of a structured
\* `updated`; else the date of a free-form `updated`; else, `updated` being
\* empty, the valid time of the previous row that was processed to its end,
\* when there is one; else the date of the row's access timestamp.
C8_ValidTimePrecedence ==
    Counted =>
        LET updated    == Get(last.row, "updated")
            valid_time == last.id_vals[3]
        IN  /\ (Truthy(updated) /\ StartsWithBrace(updated))
                  => StructuredDate(updated) = [kind |-> "ok", valid_time |-> valid_time]
            /\ (Truthy(updated) /\ ~StartsWithBrace(updated))
                  => TextDate(updated) = [kind |-> "ok", valid_time |-> valid_time]
            /\ (~Truthy(updated) /\ last.carried_id_vals # << >>)
                  => valid_time = last.carried_id_vals[3]
            /\ (~Truthy(updated) /\ last.carried_id_vals = << >>)
                  => valid_time = DateOf(last.access_ts[1])

\* a row with a structured `updated` of 2020-03-29, fetched on another day
\* and following a row with yet another valid time, got 2020-03-29
C8_Witness ==
    /\ last.exit = "extracted"
    /\ Get(last.row, "updated") = "{'year':2020,'month':3,'day':29}"
    /\ last.id_vals[3] = << 2020, 3, 29 >>
    /\ DateOf(last.access_ts[1]) # last.id_vals[3]
    /\ last.carried_id_vals # << >>
    /\ last.carried_id_vals[3] # last.id_vals[3]

\* the text of `updated` yields no date
Unconvertible(updated) ==
    IF StartsWithBrace(updated)
    THEN StructuredDate(updated).kind # "ok"
    ELSE TextDate(updated).kind # "ok"

\* C9: a row whose populated `updated` cannot be turned into a date,
\* structured or free-form, is skipped and the loop goes on to the next row.
C9_UnconvertibleUpdatedSkipsRow ==
    ( /\ TimeResolved
      /\ Truthy(Cell(last.row, "updated"))
      /\ Unconvertible(Get(last.row, "updated")) )
    => (last.exit = "skip_unparsable_updated" /\ pc = "loop")

\* C10: the store never holds two scrapes of one (provider, url, fetch
\* timestamp), and a row that reached extraction uses the scrape of its own
\* triple.
C10_OneScrapePerKey ==
    /\ \A x, y \in db.scrapes :
          ( /\ x.provider_id = y.provider_id
            /\ x.uri = y.uri
            /\ x.scraped_ts = y.scraped_ts ) => x = y
    /\ Counted =>
          \E x \in db.scrapes :
              /\ x.scrape_id = last.id_vals[1]
              /\ x.provider_id = Get(last.row, "provider")
              /\ x.uri = Get(last.row, "url")
              /\ x.scraped_ts = last.access_ts[1]

\* a row of a later file used the scrape an earlier file created, the store
\* holding scrapes of other fetch timestamps too
C10_Witness ==
    /\ last.exit = "extracted"
    /\ \E x \in db.scrapes :
          /\ x.scrape_id = last.id_vals[1]
          /\ x.csv_file # fname
    /\ Cardinality(db.scrapes) > 1

\* the create_attribute calls of the last iteration
CreateCalls == { i \in DOMAIN last.calls : last.calls[i].op = "create_attribute" }

\* C11: for every extracted row, the dataset its attributes are registered
\* under, and the dataset of the scrape it creates, is "US^" + state +
\* ":COVID19" of that row when its provider is the canonical one (also put
\* in for a missing provider column or the value `state`), else the provider.
C11_DatasetFollowsRowState ==
    last.exit = "extracted" =>
        LET p        == Get(last.row, "provider")
            expected == IF p = "doe-covid19"
                        THEN << "US^", Get(last.row, "state"), ":COVID19" >>
                        ELSE << p >>
        IN  /\ \A i \in CreateCalls : last.calls[i].dataset = expected
            /\ \A x \in db.scrapes :
                  (x.csv_file = fname /\ x.csv_row = last.row_no)
                  => x.dataset_id = expected

\* the populated ones among the row's country, state, county, uppercased
UpperParts(row) ==
    LET cols == SelectSeq(<< "country", "state", "county" >>,
                          LAMBDA c : Truthy(Get(row, c)))
    IN  [i \in DOMAIN cols |-> Upper(Get(row, cols[i]))]

\* C12: the geounit id of a row is its uppercased non-empty country, state,
\* county joined by "^", then "$" + region when region is populated, then
\* "$" + the current facility name when the group is HOSPITAL, the
\* resolution registered then being "hospital"; in any other group the id
\* ends with the region part.
C12_GeoUnitIdLayout ==
    Counted =>
        LET base   == Join(UpperParts(last.row), "^")
            region == IF Truthy(Get(last.row, "region"))
                      THEN << "$", Get(last.row, "region") >> ELSE << >>
            id     == last.id_vals[2]
        IN  IF last.group_type = GroupHospital
            THEN /\ id = base \o region \o << "$", group_hospital_name >>
                 /\ Get(last.row, "resolution") = "hospital"
                 /\ \E g \in db.geounits : g.geounit_id = id
            ELSE /\ id = base \o region
                 /\ \E g \in db.geounits : g.geounit_id = id

\* a facility row with county and region populated and country empty got
\* its id, the resolution "hospital" being registered with it
C12_Witness ==
    /\ last.exit = "extracted"
    /\ last.group_type = GroupHospital
    /\ ~Truthy(Get(last.row, "country"))
    /\ Truthy(Get(last.row, "county")) /\ Truthy(Get(last.row, "region"))
    /\ last.id_vals[2] = << "TN", "^", "KNOX", "$", "East", "$", "Mercy" >>
    /\ [geounit_id |-> last.id_vals[2], resolution |-> "hospital"] \in db.geounits

\* a text with its letter case folded; cells are already stripped
FoldCase(v) ==
    CASE v = "East"  -> "east"
      [] v = "Knox"  -> "knox"
      [] v = "MERCY" -> "mercy"
      [] v = "Mercy" -> "mercy"
      [] OTHER       -> v

\* the inputs of the geounit id of a row, letter case folded
FoldedPlace(row, hospital_name) ==
    << FoldCase(Get(row, "country")), FoldCase(Get(row, "state")),
       FoldCase(Get(row, "county")), FoldCase(Get(row, "region")),
       FoldCase(hospital_name) >>

\* C13: two rows, here consecutive ones, whose country, state, county,
\* region and facility name are equal up to letter case and surrounding
\* whitespace get the same geounit id.
C13_SameIdUpToCase ==
    [][ ( /\ last.exit = "extracted" /\ last'.exit = "extracted"
          /\ last.group_type = GroupHospital <=> last'.group_type = GroupHospital
          /\ FoldedPlace(last.row, group_hospital_name)
                = FoldedPlace(last'.row, group_hospital_name') )
        => last'.id_vals[2] = last.id_vals[2]
      ]_vars

\* the facts stored for file row n
RowFacts(stav, n) == { i \in DOMAIN stav : stav[i].csv_row = n }

\* C14: the geounit of a row is registered before the row's facts are
\* stored, and stays registered: no stored fact references a geounit id
\* that the geounit registry lacks.
C14_FactsReferenceRegisteredGeounits ==
    \A i \in DOMAIN db.stav :
        \E g \in db.geounits : g.geounit_id = db.stav[i].geounit_id

\* a row whose geounit was new stored a fact under it after another of its
\* fact INSERTs was refused and rolled back
C14_Witness ==
    /\ last.exit = "extracted"
    /\ last.conflicts # {}
    /\ \E i \in RowFacts(db.stav, last.row_no) :
          /\ db.stav[i].geounit_id = last.id_vals[2]
          /\ \E g \in db.geounits : g.geounit_id = last.id_vals[2]
    /\ \A i \in DOMAIN db.stav :
          db.stav[i].geounit_id = last.id_vals[2] => db.stav[i].csv_row = last.row_no

\* the keys of the create_attribute calls of the last iteration
CreatedKeys ==
    { << last.calls[k].dataset, last.calls[k].attr >> : k \in CreateCalls }

\* C15: creation is idempotent.  After every row each (dataset, key) its
\* create_attribute calls named has exactly one attribute, with the "%"
\* marker exactly when the key contains `percent`; a call for a key that
\* exists raises nothing; datasets and geounits have one entry per key; and
\* no step changes or removes an entry of the provider, vendor, dataset,
\* geounit or attribute registries.
C15_CreateIsIdempotent ==
    [][ /\ \A key \in CreatedKeys' :
              Cardinality({ a \in db'.attributes :
                              a.dataset_id = key[1] /\ a.attr = key[2] }) = 1
        /\ \A a \in db'.attributes : (a.meta = "%") = ContainsPercent(a.attr)
        /\ last'.existing # {} => last'.exit = "extracted" /\ last'.exc = None
        /\ \A g, h \in db'.geounits : g.geounit_id = h.geounit_id => g = h
        /\ \A x, y \in db'.datasets : x.dataset_id = y.dataset_id => x = y
        /\ db.providers \subseteq db'.providers
        /\ db.vendors \subseteq db'.vendors
        /\ db.datasets \subseteq db'.datasets
        /\ db.geounits \subseteq db'.geounits
        /\ db.attributes \subseteq db'.attributes ]_vars

\* a row created again an attribute key, its provider and its geounit, the
\* geounit with another resolution than the registered one
C15_Witness ==
    /\ last.exit = "extracted"
    /\ last.existing # {}
    /\ last.row_no = 2
    /\ provider \in db.providers
    /\ \E g \in db.geounits :
          g.geounit_id = last.id_vals[2] /\ g.resolution # Get(last.row, "resolution")

\* C16: every mutation of the row loop that succeeds is committed before
\* the next statement is issued: no rollback undoes an earlier statement,
\* nothing is left uncommitted after a row, and a row removes no scrape and
\* no fact written before it.
C16_RollbackUndoesOnlyTheFailedStatement ==
    [][ /\ ~db'.lost
        /\ db'.undo = << >>
        /\ db.scrapes \subseteq db'.scrapes
        /\ Len(db.stav) <= Len(db'.stav)
        /\ SubSeq(db'.stav, 1, Len(db.stav)) = db.stav ]_vars

\* the store refused the second fact of a row that had registered its
\* scrape and its geounit and stored its first fact, all of which remain
C16_Witness ==
    /\ last.exit = "extracted"
    /\ last.conflicts = {4}
    /\ \E x \in db.scrapes : x.scrape_id = last.id_vals[1] /\ x.csv_row = last.row_no
    /\ \E g \in db.geounits : g.geounit_id = last.id_vals[2]
    /\ \E i \in RowFacts(db.stav, last.row_no) : db.stav[i].csv_col = "cases"
    /\ \A i \in RowFacts(db.stav, last.row_no) : db.stav[i].csv_col # "deaths"

\* the store_stav calls of the last iteration that the store accepted
AcceptedCalls ==
    SelectSeq([k \in DOMAIN last.calls |-> [k |-> k, c |-> last.calls[k]]],
              LAMBDA x : x.c.op = "store_stav" /\ x.k \notin last.conflicts)

\* the facts the stores hold for the row of the last iteration, in order
LastRowFacts == SelectSeq(db.stav, LAMBDA fact : fact.csv_row = last.row_no)

\* C17: a row one of whose fact INSERTs is refused ends normally, the loop
\* goes on, and the row's facts are the facts of all its other store_stav
\* calls, those before and those after the refused one, in call order.
C17_RefusedFactLeavesTheOthers ==
    last.conflicts # {} =>
        /\ last.exit = "extracted" /\ last.exc = None
        /\ pc \in {"loop", "returned"}
        /\ Len(LastRowFacts) = Len(AcceptedCalls)
        /\ \A i \in DOMAIN AcceptedCalls :
              /\ LastRowFacts[i].attr = AcceptedCalls[i].c.attr
              /\ LastRowFacts[i].val = AcceptedCalls[i].c.val
              /\ LastRowFacts[i].csv_col = AcceptedCalls[i].c.csv_col

\* the row's first fact was refused and its second stored, after a row of
\* which the same is true
C17_Witness ==
    /\ last.exit = "extracted"
    /\ last.conflicts = {2}
    /\ last.row_no >= 1
    /\ \E i \in DOMAIN LastRowFacts : LastRowFacts[i].csv_col = "deaths"
    /\ \E i \in RowFacts(db.stav, last.row_no - 1) : db.stav[i].csv_col = "deaths"
    /\ \A i \in RowFacts(db.stav, last.row_no - 1) : db.stav[i].csv_col # "cases"

\* the iteration logged that a simple value does not repeat
Mismatch(l) == \E i \in DOMAIN l.calls : l.calls[i] = Warning("mismatch")

\* the simple attributes populated in both rows with different values
Differing(row, prev) ==
    { a \in Range(simple_attrs) :
        Get(row, a) # None /\ Get(prev, a) # None /\ Get(row, a) # Get(prev, a) }

\* C18: a row of a group that checks repeated simple values reports a
\* mismatch only if some simple attribute is populated in it and in the
\* previous row with different values.
C18_MismatchNeedsBothPopulated ==
    [][ (last'.exit = "extracted" /\ Mismatch(last'))
        => Differing(last'.row, PrevAtRow(row_no, last'.row, row_prev)) # {} ]_vars

\* the line of cells that normalises to the row
CellsOf(row) ==
    [c \in AllColumns |-> IF Has(row, c) /\ Get(row, c) # None THEN Get(row, c) ELSE ""]

\* the line of the row, each simple value that differs from the previous
\* row's replaced by the previous row's
Equalised(row, prev) ==
    [c \in AllColumns |->
        IF c \in Range(simple_attrs) /\ Get(row, c) # None /\ Get(row, c) # Get(prev, c)
        THEN (IF Get(prev, c) = None THEN "" ELSE Get(prev, c))
        ELSE CellsOf(row)[c]]

\* the variables st, the carried row holding v as its simple attribute a
WithPrev(st, a, v) ==
    LET i == CHOOSE j \in DOMAIN simple_attrs : simple_attrs[j] = a
    IN  [st EXCEPT !.row_prev = SetKey(@, a, v),
                   !.simpl_vals_prev = [@ EXCEPT ![3 + i] = v]]

\* what an iteration did other than log and remember the row: the stores,
\* the carried provider, group, counter, range and identity, how it ended,
\* and its create_attribute and store_stav calls
Outcome(n) ==
    [n EXCEPT !.row_prev = NoRow, !.simpl_vals_prev = << >>,
              !.last = [row_no |-> n.last.row_no, exit |-> n.last.exit,
                        exc |-> n.last.exc, group_type |-> n.last.group_type,
                        group_row |-> n.last.group_row, id_vals |-> n.last.id_vals,
                        writes |-> SelectSeq(n.last.calls,
                                             LAMBDA c : c.op # "warning")]]

\* the outcome of the loop body on the line, started with the variables st
OutcomeOf(st, cells) ==
    CHOOSE o \in { Outcome(n) : n \in { IterationFrom(st, cells, {}) } } : TRUE

\* the values a cell of a simple attribute takes
SimpleValues == { None, "10", "12" }

\* C19: a mismatch only logs.  The row that reports it is extracted and the
\* loop goes on; what the row does other than log is what it does with the
\* value replaced by the previous row's; and what any row does other than
\* log does not depend on the simple values of the row before it, so the
\* rows after a mismatch write the same facts, attributes, scrapes and
\* geounits whichever of the two values the mismatching row held.
C19_MismatchOnlyLogs ==
    [][ (pc = "loop" /\ row_no' = row_no + 1) =>
        \E base \in { OutcomeOf(Current, CellsOf(last'.row)) } :
            /\ base.db = db'
            /\ Mismatch(last')
                => /\ last'.exit = "extracted" /\ last'.exc = None /\ pc' = "loop"
                   /\ OutcomeOf(Current,
                          Equalised(last'.row, PrevAtRow(row_no, last'.row, row_prev)))
                      = base
            /\ row_prev # NoRow
                => \A a \in { x \in Range(simple_attrs) :
                                 Get(row_prev, x) # None \/ Get(last'.row, x) # None },
                      v \in SimpleValues :
                      OutcomeOf(WithPrev(Current, a, v), CellsOf(last'.row)) = base ]_vars

\* a row of an age.other group reported a mismatch and the loop went on
C19_Witness ==
    /\ Mismatch(last)
    /\ last.exit = "extracted"
    /\ last.group_type = GroupAgeOther
    /\ last.row_no >= 1
    /\ pc = "loop"

\* C20: a load under `new` of a file of which an earlier load has stored a
\* fact returns at once and leaves the stores as they are.
C20_NewSkipsIngestedFile ==
    [][ (loads' = loads + 1 /\ op' = "new" /\ fname' \in ingested)
        => pc' = "returned" /\ db' = db ]_vars

\* the facts of the sequence that loads of other files than f stored
StoredByOthers(stav, f) == SelectSeq(stav, LAMBDA fact : fact.by # f)

\* C21: a load under `replace` starts by removing the scrapes that name the
\* file and every fact that earlier loads of the file stored, and nothing
\* else: the facts that loads of other files stored remain.
C21_ReplaceRemovesTheFilesFacts ==
    [][ (loads' = loads + 1 /\ op' = "replace")
        => /\ db'.scrapes = { x \in db.scrapes : x.csv_file # fname' }
           /\ db'.stav = StoredByOthers(db.stav, fname') ]_vars

\* the stores d2 hold every entry of the dictionaries of d
KeepsDictionaries(d, d2) ==
    /\ d.providers \subseteq d2.providers
    /\ d.vendors \subseteq d2.vendors
    /\ d.datasets \subseteq d2.datasets
    /\ d.geounits \subseteq d2.geounits
    /\ d.attributes \subseteq d2.attributes

\* the stores d2 hold every scrape of d, and the facts of d as a prefix
KeepsScrapesAndFacts(d, d2) ==
    /\ d.scrapes \subseteq d2.scrapes
    /\ Len(d.stav) <= Len(d2.stav)
    /\ SubSeq(d2.stav, 1, Len(d.stav)) = d.stav

\* C22: load only adds.  No step removes or changes a provider, vendor,
\* dataset, geounit or attribute; no step but the start of a load under
\* `replace` removes or changes a scrape or a fact; and that start removes
\* scrapes and facts only, before the first row is read.
C22_LoadOnlyAdds ==
    [][ /\ KeepsDictionaries(db, db')
        /\ (loads' = loads + 1 /\ op' = "replace")
           \/ KeepsScrapesAndFacts(db, db')
        /\ (loads' = loads + 1 /\ op' = "replace")
           => /\ row_no' = 0
              /\ db'.scrapes \subseteq db.scrapes
              /\ \A i \in DOMAIN db'.stav : \E j \in DOMAIN db.stav :
                     db'.stav[i] = db.stav[j] ]_vars

\* a load under `replace` removed the scrape and the fact of the file and
\* has stored a fact since, the geounit and the attribute being there still
C22_Witness ==
    /\ op = "replace" /\ loads = 2
    /\ last.exit = "extracted"
    /\ fname \in ingested
    /\ Len(db.stav) = 1
    /\ \A x \in db.scrapes : x.scrape_id > 1
    /\ db.geounits # {} /\ db.attributes # {}

\* the step starts a load of a file without an essential column, or reads
\* the first row of one
BrokenFileStep ==
    \/ loads' = loads + 1 /\ header' \in BrokenHeaders
    \/ pc = "loop" /\ row_no' = row_no + 1 /\ header \in BrokenHeaders

\* the first row of a file without an essential column ends the loop
\* without an exception, and no second row is read
HeaderAbort ==
    (pc = "loop" /\ row_no' = row_no + 1 /\ header \in BrokenHeaders)
    => /\ row_no = 0
       /\ pc' = "returned"
       /\ last'.exit = "break_header" /\ last'.exc = None /\ last'.calls = << >>

\* C23 as stated: the load of a file without `access_time` or `state`
\* leaves the loop at the first row without raising, and every store is
\* after it what it was before it.
C23_BrokenFileChangesNothing ==
    [][ BrokenFileStep => (HeaderAbort /\ db' = db) ]_vars

\* C23, amended: the same, except that a load under `replace` has deleted
\* the scrapes that name the file, and the facts under them, before the
\* header is examined; these are not restored.
C23_BrokenFileCreatesNothing ==
    [][ BrokenFileStep =>
            /\ HeaderAbort
            /\ IF loads' = loads + 1 /\ op' = "replace"
               THEN db' = DeleteFile(db, fname')
               ELSE db' = db ]_vars

\* the file loaded under `replace` lacked an essential column: the loop
\* ended at its first row, and the facts an earlier load stored are gone
C23_Witness ==
    /\ last.exit = "break_header"
    /\ pc = "returned"
    /\ op = "replace" /\ loads = 2
    /\ fname \in ingested
    /\ db.stav = << >> /\ db.geounits # {}

\* the row is one of those lines 252-255, 340-351, 358-387 and 389-393 skip:
\* no fetch time, a fetch time or an `updated` that yields no date, no url
BadRow(row) ==
    \/ ~Truthy(Cell(row, "access_time"))
    \/ DateParserParse(Get(row, "access_time")) = << >>
    \/ Truthy(Cell(row, "updated")) /\ Unconvertible(Get(row, "updated"))
    \/ ~Truthy(Cell(row, "url"))

SkipExits ==
    { "skip_access_time", "skip_unparsable_access_time",
      "skip_unparsable_updated", "skip_url" }

\* C24: a row with an empty access_time, an unparsable access_time or
\* `updated`, or an empty url is skipped on its own: the loop goes on, the row
\* adds no scrape, geounit, attribute or fact, and what the loop carries to
\* the later rows is what it carried before the row.
C24_BadRowSkippedAlone ==
    [][ (pc = "loop" /\ row_no' = row_no + 1 /\ BadRow(last'.row))
        => /\ pc' = "loop"
           /\ last'.exit \in SkipExits
           /\ db'.scrapes = db.scrapes /\ db'.geounits = db.geounits
           /\ db'.attributes = db.attributes /\ db'.stav = db.stav
           /\ UNCHANGED << simpl_vals_prev, id_vals_prev, row_prev, group_row,
                           group_type, group_hospital_name, current_range >> ]_vars

\* C25: a load of a file whose header has every recognized column, read
\* without a row range, never raises, whatever its cells hold.
C25_FullHeaderNeverRaises ==
    (header = AllColumns /\ rows = << >>)
    => (pc # "raised" /\ last.exc = None)

\* the names the last row asked the store to create, and how many percent
\* warnings it logged
CreatedNames ==
    { last.calls[i].attr :
        i \in { j \in DOMAIN last.calls : last.calls[j].op = "create_attribute" } }

PercentWarnings ==
    Cardinality({ i \in DOMAIN last.calls :
                    last.calls[i] = Warning("percent") })

NamesSynthesized ==
    Cardinality({ i \in DOMAIN last.calls :
                    last.calls[i].op = "create_attribute" })

YesSpellings == { "yes", "Yes", "YES" }

\* C26: with the percent check, the name gets the segment `percent` exactly
\* when the percent cell is `yes` in any letter case, and then nothing is
\* logged; another non-empty cell gives the name without the segment and one
\* warning per name; an empty cell gives the name without the segment and no
\* warning.  For the literal part `cases`: cases_percent, cases, cases.
C26_PercentSegment ==
    (last.exit = "extracted" /\ last.group_type = GroupNone)
    => LET prc == Cell(last.row, "percent")
           m   == mk_attr_name(last.row, << Lit("cases") >>, TRUE)
       IN  /\ m.exc = None
           /\ NamesSynthesized = Cardinality(CreatedNames)
           /\ CASE prc \in YesSpellings ->
                     /\ m.name = << "cases", "_", "percent" >> /\ ~m.warn
                     /\ CreatedNames \subseteq
                            { << c, "_", "percent" >> : c \in {"cases", "deaths"} }
                     /\ PercentWarnings = 0
                [] Truthy(prc) /\ prc \notin YesSpellings ->
                     /\ m.name = << "cases" >> /\ m.warn
                     /\ CreatedNames \subseteq { << c >> : c \in {"cases", "deaths"} }
                     /\ PercentWarnings = NamesSynthesized
                [] OTHER ->
                     /\ m.name = << "cases" >> /\ ~m.warn
                     /\ CreatedNames \subseteq { << c >> : c \in {"cases", "deaths"} }
                     /\ PercentWarnings = 0

\* a row with `Yes` in the percent column and two simple columns was
\* extracted after a row with another text in it
C26_Witness ==
    /\ last.exit = "extracted" /\ last.row_no = 1
    /\ Cell(last.row, "percent") = "Yes"
    /\ CreatedNames = { << c, "_", "percent" >> : c \in {"cases", "deaths"} }
    /\ \E a \in db.attributes : a.attr = << "cases" >>

\* C27: processes that load different files under append or new at the
\* same time never end on an exception of the store, and the stores never
\* hold two scrapes of one (provider, uri, fetch timestamp) nor two
\* dictionary entities of one key.
C27_ConcurrentLoadsAreSafe ==
    /\ \A i \in Invocations : inv[i].pc # "raised"
    /\ \A x, y \in db.scrapes :
          ( /\ x.provider_id = y.provider_id
            /\ x.uri = y.uri
            /\ x.scraped_ts = y.scraped_ts ) => x = y
    /\ \A x, y \in db.geounits : x.geounit_id = y.geounit_id => x = y
    /\ \A x, y \in db.attributes :
          (x.dataset_id = y.dataset_id /\ x.attr = y.attr) => x = y

\* C28: the count a `replace` reports is the count read before the DELETE
\* minus the count read after it: the facts the DELETE removed, less the net
\* number of facts the other processes added between the two reads.  It is
\* the number removed when no other process touched the facts in between.
C28_ReportedCount ==
    \A i \in Invocations :
        inv[i].reported # << >>
        => /\ inv[i].reported[1] = inv[i].removed - inv[i].others
           /\ inv[i].others = 0 => inv[i].reported[1] = inv[i].removed

\* a `replace` whose DELETE removed a fact reported another number, a fact
\* of the other process having been stored between its two reads
C28_Witness ==
    \E i \in Invocations :
        /\ inv[i].op = "replace"
        /\ inv[i].reported # << >>
        /\ inv[i].removed > 0
        /\ inv[i].reported[1] # inv[i].removed
        /\ inv[i].others # 0

\* C29: load reads the rows once and in input order, and leaves the row loop
\* only at the end of the input (after the row in flight), at the header
\* abort or at range exhaustion.
C29_SinglePass ==
    [][ /\ (pc = "loop" /\ row_no' # row_no)
           => (row_no' = row_no + 1 /\ last'.row_no = row_no)
        /\ (pc = "loop" /\ pc' # "loop")
           => /\ pc' = "returned"
              /\ \/ UNCHANGED << db, row_no, last >>
                 \/ last'.exit \in { "break_header", "break_range" } ]_vars

Demographic == { GroupAge, GroupAgeSex, GroupSex }

\* the columns whose value a row's calls store, one entry per call
StoredColumns(calls) ==
    SelectSeq([k \in DOMAIN calls |->
                  IF calls[k].op = "store_stav" THEN calls[k].csv_col ELSE ""],
              LAMBDA c : c # "")

\* the shared (simple) columns among them
SimpleStored(calls) ==
    SelectSeq(StoredColumns(calls), LAMBDA c : ColumnPrefix(c) = "")

\* the row extracted last continues a run: the row processed before it had
\* its (scrape, geounit, valid time) and was in a demographic group too
ContinuesRun(l) ==
    /\ l.row_no > 0
    /\ l.carried_id_vals = l.id_vals
    /\ l.carried_group \in Demographic

C31_HospitalIsAbsorbing ==
    [][ (pc = "loop" /\ group_type = GroupHospital /\ row_no' = row_no + 1)
        => /\ group_type' = GroupHospital
           /\ last'.exit = "facility_header"
              => group_hospital_name' = Get(last'.row, "other_value")
           /\ last'.exit # "facility_header"
              => group_hospital_name' = group_hospital_name
           /\ last'.exit = "extracted"
              => /\ last'.group_type = GroupHospital
                 /\ SubSeq(last'.id_vals[2], Len(last'.id_vals[2]) - 1,
                           Len(last'.id_vals[2]))
                       = << "$", group_hospital_name >> ]_vars

\* after the headers of two facilities, a row with an age range and a sex
\* was extracted in the hospital group under the second facility
C31_Witness ==
    /\ last.exit = "extracted" /\ last.row_no = 2
    /\ last.group_type = GroupHospital /\ last.carried_group = GroupHospital
    /\ Truthy(Cell(last.row, "age_range"))
    /\ group_hospital_name = "5"
    /\ last.id_vals[2] = << "US", "^", "TN", "$", "5" >>
    /\ \E g \in db.geounits : g.geounit_id = last.id_vals[2]

\* the row is a facility header for a classifier in the group carried
FacilityHeader(carried, row) ==
    /\ Cell(row, "other") = HospitalSentinel
    /\ \/ carried = GroupHospital
       \/ ~Truthy(Cell(row, "age_range")) /\ ~Truthy(Cell(row, "sex"))

\* C32: a facility header row, met in the hospital group or, with age_range
\* and sex empty, in any other, sets the group to hospital, the facility
\* name to its other_value and the counter to 0 and ends there: no geounit,
\* attribute or fact is added, and the previous row, identity tuple and
\* simple vector stay.
C32_FacilityHeaderOnlyRecords ==
    [][ (pc = "loop" /\ row_no' = row_no + 1
            /\ FacilityHeader(group_type, last'.row))
        => /\ pc' = "loop" /\ last'.exit = "facility_header"
           /\ group_type' = GroupHospital
           /\ group_hospital_name' = Get(last'.row, "other_value")
           /\ group_row' = 0
           /\ last'.calls = << >>
           /\ db'.geounits = db.geounits /\ db'.attributes = db.attributes
           /\ db'.stav = db.stav
           /\ UNCHANGED << row_prev, id_vals_prev, simpl_vals_prev >> ]_vars

\* a header with an age range, met in the hospital group after an extracted
\* row, recorded the second facility and left the previous row in place
C32_Witness ==
    /\ last.exit = "facility_header" /\ last.row_no = 2
    /\ last.carried_group = GroupHospital
    /\ Truthy(Cell(last.row, "age_range"))
    /\ group_hospital_name = "5" /\ group_row = 0
    /\ row_prev # NoRow /\ id_vals_prev # << >>
    /\ id_vals_prev[2] = << "US", "^", "TN", "$", "Mercy" >>
    /\ Len(db.stav) = 1

\* C33: every fact a row stores has the key that the call just before it
\* registered with create_attribute: the key mk_attr_name synthesized,
\* percent segment and age or sex prefix included.
C33_FactKeyIsRegisteredKey ==
    last.exit = "extracted"
    => \A k \in DOMAIN last.calls :
          last.calls[k].op = "store_stav"
          => /\ k > 1
             /\ last.calls[k - 1].op = "create_attribute"
             /\ last.calls[k - 1].attr = last.calls[k].attr

\* C34: every fact stored while file F was loaded hangs on a scrape whose
\* csv_file is F.
C34_FactsHangOnTheirFilesScrapes ==
    \A k \in DOMAIN db.stav :
        \E x \in db.scrapes :
            /\ x.scrape_id = db.stav[k].scrape_id
            /\ x.csv_file = db.stav[k].by

\* the three carried values are absent together, or are the identity
\* tuple, the simple vector and the snapshot of one row
Coherent(ids, simpl, row) ==
    \/ ids = << >> /\ simpl = << >> /\ row = NoRow
    \/ /\ Len(ids) = 3 /\ row # NoRow
       /\ simpl = SimplVals(ids, row)

\* C35: the previous identity tuple, simple vector and row snapshot always
\* come from one row; a row that leaves the counter above 0 found all three
\* present (on file row 0: its own), its identity tuple equal to the
\* previous one and its simple vector as long as the previous one.
C35_PreviousRowIsCoherent ==
    [][ /\ Coherent(id_vals_prev', simpl_vals_prev', row_prev')
        /\ ( /\ pc = "loop" /\ row_no' = row_no + 1
              /\ last'.exit = "extracted" /\ last'.group_row > 0
              /\ row_no > 0 )
           => /\ row_prev # NoRow
              /\ id_vals_prev = last'.id_vals
              /\ Len(simpl_vals_prev) = Len(SimplVals(last'.id_vals, last'.row)) ]_vars

\* the first row of the file was skipped; the second and third were
\* extracted in one age group, the third with the counter at 1
C35_Witness ==
    /\ last.exit = "extracted" /\ last.row_no = 2
    /\ last.group_type = GroupAge /\ last.group_row = 1
    /\ last.carried_id_vals = last.id_vals
    /\ row_prev = last.row
    /\ \E k \in DOMAIN db.stav : db.stav[k].csv_row = 1
    /\ \A k \in DOMAIN db.stav : db.stav[k].csv_row # 0

\* row n is read with the range r current and lies outside it where the
\* filter of lines 284-287 can tell
OutsideRange(r, n) == ~RowInside(r, n) /\ (Len(r) = 2 \/ n < r[1])

\* C36: a row skipped for an empty access_time, an unparsable time, an empty
\* url or as an empty row, or lying outside the current range, leaves the
\* group, the facility name, the counter, the previous identity tuple, the
\* previous simple vector and the previous row as they were.
C36_SkippedRowLeavesGroupState ==
    [][ ( /\ pc = "loop" /\ row_no' = row_no + 1
          /\ \/ last'.exit \in SkipExits \cup { "skip_empty", "skip_range" }
             \/ /\ rows # << >>
                /\ Truthy(Cell(last'.row, "access_time"))
                /\ OutsideRange(rows[current_range + 1], row_no) )
        => /\ pc' = "loop"
           /\ last'.exit \in SkipExits \cup { "skip_empty", "skip_range" }
           /\ last'.calls = << >>
           /\ UNCHANGED << group_type, group_hospital_name, group_row,
                           id_vals_prev, simpl_vals_prev, row_prev >> ]_vars

\* after a row of an age group in tn, a row of va outside the range was
\* skipped: the group, the counter and the previous row are those of tn
C36_Witness ==
    /\ rows = << <<1, 1>>, <<3, 3>> >>
    /\ last.exit = "skip_range" /\ last.row_no = 2
    /\ Cell(last.row, "state") = "va"
    /\ group_type = GroupAge
    /\ row_prev # NoRow /\ Cell(row_prev, "state") = "tn"
    /\ id_vals_prev # << >> /\ id_vals_prev[2] = << "US", "^", "TN" >>

\* C37: an optional column that the header lacks reads as empty in every
\* row that is processed, and no row fails on a missing column, also when
\* row 0 of the file was skipped for an empty access_time.
C37_MissingOptionalColumnsReadEmpty ==
    ({ "access_time", "state" } \subseteq header /\ last.row_no >= 0)
    => /\ last.exc # "KeyError"
       /\ last.exit = "extracted"
          => \A i \in DOMAIN OptionalColumns :
                OptionalColumns[i] \notin header
                => /\ Has(last.row, OptionalColumns[i])
                   /\ OptionalColumns[i] = "resolution"
                      \/ Get(last.row, OptionalColumns[i]) = None

\* the row extracted last is in group g and its other_value is populated but
\* not numeric
ModifierRow(l, g) ==
    /\ l.exit = "extracted" /\ l.group_type = g
    /\ Truthy(Get(l.row, "other_value")) /\ ~IsFloat(Get(l.row, "other_value"))

\* the calls of the row that store the value of column a
StoresOf(l, a) ==
    { k \in DOMAIN l.calls : l.calls[k].op = "store_stav" /\ l.calls[k].csv_col = a }

\* the row stores, for every populated simple metric, exactly one fact, of
\* that metric's value and column, under the name made of the group parts,
\* `other`, `other_value` and the metric; and no fact of another column
StoredAsModifier(l, group_parts) ==
    /\ \A i \in DOMAIN simple_attrs :
          Truthy(Get(l.row, simple_attrs[i]))
          => /\ Cardinality(StoresOf(l, simple_attrs[i])) = 1
             /\ \A k \in StoresOf(l, simple_attrs[i]) :
                   /\ l.calls[k].val = Get(l.row, simple_attrs[i])
                   /\ l.calls[k].attr =
                        mk_attr_name(l.row,
                            group_parts \o << Col("other"), Col("other_value"),
                                              Lit(simple_attrs[i]) >>, TRUE).name
    /\ \A k \in DOMAIN l.calls :
          l.calls[k].op = "store_stav"
          => /\ l.calls[k].csv_col \in Range(simple_attrs)
             /\ Truthy(Get(l.row, l.calls[k].csv_col))

\* C38: a populated, non-numeric other_value is a modifier in age.other and
\* in sex.other alike: every populated simple metric of the row gets exactly
\* one fact, of its value and column, named group prefix, other, other_value,
\* metric; no other column gets a fact.
C38_OtherValueIsModifier ==
    /\ ModifierRow(last, GroupAgeOther)
       => StoredAsModifier(last, << Lit("age"), Col("age_range") >>)
    /\ ModifierRow(last, GroupSexOther)
       => StoredAsModifier(last, << Lit("sex"), Col("sex") >>)

\* C39: a load by a loader constructed with dry_run returns at once, for
\* every op: it issues no statement (no count, no DELETE of `replace`, no
\* SELECT of `new`), reads no row, and leaves every store as it was.
C39_DryRunTouchesNothing ==
    [][ (dry_run /\ loads' = loads + 1)
        => /\ pc' = "returned"
           /\ last'.calls = << >> /\ last'.row_no = -1
           /\ db' = db /\ ingested' = ingested ]_vars

\* a dry-run `replace` of a file whose scrapes and facts are in the stores
\* has returned and they are still there
C39_Witness ==
    /\ dry_run /\ pc = "returned" /\ op = "replace" /\ last = NoLast
    /\ \E x \in db.scrapes :
          /\ x.csv_file = fname
          /\ \E k \in DOMAIN db.stav : db.stav[k].scrape_id = x.scrape_id

====
